---- MODULE Spec2Model ----
(***************************************************************************)
(* Blender MetaHuman MCP: the face-reconstruction feature mapper, the      *)
(* semantic layer (feature catalog, rig resolver, presets) and the MCP     *)
(* face tools, modelled as operators over the repository's static tables   *)
(* and as actions that apply them to drawn inputs.                         *)
(*                                                                         *)
(* Numbers.  Ratios, multipliers, preset and edit values are integers in   *)
(* thousandths (0.56 is 560).  A sensitivity is an integer in tenths (1.5  *)
(* is 15).  A mapped feature value is an exact fraction <<num, den>> with  *)
(* den > 0.  A Python dict that is iterated is a sequence of <<key,        *)
(* value>> pairs in insertion order; a dict that is only looked up is a    *)
(* function.  An Optional is <<>> (None) or <<v>>.                         *)
(***************************************************************************)
EXTENDS Integers, Sequences, FiniteSets, TLC

VARIABLES
    call,        \* the invocation under way: [op |-> name, ...arguments]
    ret,         \* its return value, meaningful once done
    done,        \* whether the invocation has returned
    featureMap,  \* semantic_layer.face_map.FACIAL_FEATURE_MAP (module global),
                 \* <<>> while semantic_layer.face_map is not imported
    armature,    \* Blender scene: <<>> (no armature) or <<set of bone names>>
    sent,        \* commands handed to BlenderConnection.send_command, in order
    pose,        \* Blender scene: bone name |-> transform of the pose bone
    client,      \* the BlenderConnection object and the position of its send_command
    wire,        \* the TCP connections made so far, with the data under way
    server,      \* MCPTCPServer: the messages its client handlers have taken
    commandQueue,\* CommandQueue: _command_queue and _results
    threads,     \* the TCP threads inside CommandRouter.dispatch
    mainThread   \* Blender's main thread inside CommandQueue._process_queue

\* the client, the connections and the TCP server of the add-on
linkvars == <<client, wire, server>>

\* the command queue of the add-on and the threads on its two sides
bridgevars == <<commandQueue, threads, mainThread>>

vars == <<call, ret, done, featureMap, armature, sent, pose, linkvars, bridgevars>>

----------------------------------------------------------------------------
(* Bounds of the model *)

\* deviations from the mean, in standard deviations, drawn for a measured ratio
MaxDev == 1
\* blend factors drawn are k / FactorSteps for k in 0..FactorSteps
FactorSteps == 4
\* longest bone-name list handed to detect_rig_type
MaxBones == 4
\* landmark lists are drawn at the scales 1..MaxScale
MaxScale == 3
\* the add-on executes at most MaxCommands batch commands in a run
MaxCommands == 2
\* TCP threads that call CommandRouter.dispatch at the same time
MaxThreads == 2

----------------------------------------------------------------------------
(* Static tables *)

\* face_reconstruction/feature_mapper.py: feature name -> ratio key, in order
PROPORTION_TO_FEATURE ==
  << <<"nose_width", "nose_width_ratio">>,
     <<"nose_length", "nose_length_ratio">>,
     <<"nose_tip_height", "nose_tip_height_ratio">>,
     <<"nose_bridge_width", "nose_bridge_width_ratio">>,
     <<"nose_bridge_height", "nose_bridge_height_ratio">>,
     <<"jaw_width", "jaw_width_ratio">>,
     <<"jaw_height", "jaw_height_ratio">>,
     <<"jaw_angle", "jaw_angle_ratio">>,
     <<"chin_prominence", "chin_prominence_ratio">>,
     <<"chin_width", "chin_width_ratio">>,
     <<"chin_height", "chin_height_ratio">>,
     <<"eye_size", "eye_height_ratio">>,
     <<"eye_spacing", "eye_spacing_ratio">>,
     <<"eye_tilt", "eye_tilt_ratio">>,
     <<"eye_depth", "eye_depth_ratio">>,
     <<"brow_height", "brow_height_ratio">>,
     <<"brow_arch", "brow_arch_ratio">>,
     <<"brow_spacing", "brow_spacing_ratio">>,
     <<"lip_fullness_upper", "lip_upper_ratio">>,
     <<"lip_fullness_lower", "lip_lower_ratio">>,
     <<"lip_width", "lip_width_ratio">>,
     <<"lip_height", "lip_height_ratio">>,
     <<"cheekbone_height", "cheekbone_height_ratio">>,
     <<"cheekbone_prominence", "cheekbone_prominence_ratio">>,
     <<"cheek_fullness", "cheek_fullness_ratio">>,
     <<"forehead_height", "forehead_height_ratio">>,
     <<"forehead_width", "forehead_width_ratio">>,
     <<"forehead_slope", "forehead_slope_ratio">>,
     <<"face_width", "face_width_ratio">>,
     <<"face_length", "face_length_ratio">>,
     <<"ear_size", "ear_size_ratio">>,
     <<"ear_angle", "ear_angle_ratio">> >>

\* face_reconstruction/reference_proportions.py: ratio key -> <<mean, std>>
REFERENCE_PROPORTIONS ==
  [ nose_width_ratio           |-> <<560, 70>>,
    nose_length_ratio          |-> <<700, 90>>,
    nose_tip_height_ratio      |-> <<0, 18>>,
    nose_bridge_width_ratio    |-> <<280, 40>>,
    nose_bridge_height_ratio   |-> <<20, 12>>,
    jaw_width_ratio            |-> <<2000, 180>>,
    jaw_height_ratio           |-> <<620, 90>>,
    jaw_angle_ratio            |-> <<0, 80>>,
    chin_prominence_ratio      |-> <<0, 13>>,
    chin_width_ratio           |-> <<520, 70>>,
    chin_height_ratio          |-> <<230, 40>>,
    eye_height_ratio           |-> <<160, 25>>,
    eye_spacing_ratio          |-> <<600, 60>>,
    eye_tilt_ratio             |-> <<0, 25>>,
    eye_depth_ratio            |-> <<0, 12>>,
    brow_height_ratio          |-> <<260, 45>>,
    brow_arch_ratio            |-> <<35, 18>>,
    brow_spacing_ratio         |-> <<520, 60>>,
    lip_upper_ratio            |-> <<110, 25>>,
    lip_lower_ratio            |-> <<140, 25>>,
    lip_width_ratio            |-> <<760, 90>>,
    lip_height_ratio           |-> <<320, 40>>,
    cheekbone_height_ratio     |-> <<0, 25>>,
    cheekbone_prominence_ratio |-> <<880, 70>>,
    cheek_fullness_ratio       |-> <<0, 15>>,
    forehead_height_ratio      |-> <<820, 110>>,
    forehead_width_ratio       |-> <<1750, 140>>,
    forehead_slope_ratio       |-> <<0, 12>>,
    face_width_ratio           |-> <<2000, 180>>,
    face_length_ratio          |-> <<2550, 220>>,
    ear_size_ratio             |-> <<0, 100>>,
    ear_angle_ratio            |-> <<0, 100>> ]

\* tenths: 1.5
DEFAULT_SENSITIVITY == 15

\* face_reconstruction/reference_proportions.py: ratio key -> tier
MEASUREMENT_CONFIDENCE ==
  [ nose_width_ratio           |-> "high",
    nose_length_ratio          |-> "high",
    jaw_width_ratio            |-> "high",
    eye_height_ratio           |-> "high",
    eye_spacing_ratio          |-> "high",
    lip_width_ratio            |-> "high",
    lip_upper_ratio            |-> "high",
    lip_lower_ratio            |-> "high",
    face_length_ratio          |-> "high",
    face_width_ratio           |-> "high",
    chin_width_ratio           |-> "high",
    brow_spacing_ratio         |-> "high",
    brow_height_ratio          |-> "high",
    nose_bridge_width_ratio    |-> "medium",
    jaw_height_ratio           |-> "medium",
    jaw_angle_ratio            |-> "medium",
    chin_height_ratio          |-> "medium",
    eye_tilt_ratio             |-> "medium",
    brow_arch_ratio            |-> "medium",
    lip_height_ratio           |-> "medium",
    cheekbone_height_ratio     |-> "medium",
    cheekbone_prominence_ratio |-> "medium",
    forehead_height_ratio      |-> "medium",
    forehead_width_ratio       |-> "medium",
    nose_tip_height_ratio      |-> "low",
    nose_bridge_height_ratio   |-> "low",
    chin_prominence_ratio      |-> "low",
    eye_depth_ratio            |-> "low",
    cheek_fullness_ratio       |-> "low",
    forehead_slope_ratio       |-> "low",
    ear_size_ratio             |-> "low",
    ear_angle_ratio            |-> "low" ]

\* semantic_layer/face_map.py: rig family -> alias -> bone identifier
BONE_ALIAS_MAPS ==
  [ metahuman |->
      [ nose_bridge    |-> "FACIAL_C_NoseBridge",
        nose_tip       |-> "FACIAL_C_NoseTip",
        nose_L         |-> "FACIAL_L_Nostril",
        nose_R         |-> "FACIAL_R_Nostril",
        nostril_L      |-> "FACIAL_L_NostrilThickness1",
        nostril_R      |-> "FACIAL_R_NostrilThickness1",
        jaw            |-> "FACIAL_C_Jaw",
        jaw_L          |-> "FACIAL_L_Jawline",
        jaw_R          |-> "FACIAL_R_Jawline",
        chin           |-> "FACIAL_C_Chin",
        chin_L         |-> "FACIAL_L_ChinSide",
        chin_R         |-> "FACIAL_R_ChinSide",
        eye_L          |-> "FACIAL_L_Eye",
        eye_R          |-> "FACIAL_R_Eye",
        eyelid_upper_L |-> "FACIAL_L_EyelidUpperA",
        eyelid_upper_R |-> "FACIAL_R_EyelidUpperA",
        eyelid_lower_L |-> "FACIAL_L_EyelidLowerA",
        eyelid_lower_R |-> "FACIAL_R_EyelidLowerA",
        brow_inner_L   |-> "FACIAL_L_ForeheadIn",
        brow_inner_R   |-> "FACIAL_R_ForeheadIn",
        brow_mid_L     |-> "FACIAL_L_ForeheadMid",
        brow_mid_R     |-> "FACIAL_R_ForeheadMid",
        brow_outer_L   |-> "FACIAL_L_ForeheadOut",
        brow_outer_R   |-> "FACIAL_R_ForeheadOut",
        lip_upper_mid  |-> "FACIAL_C_LipUpper",
        lip_lower_mid  |-> "FACIAL_C_LipLower",
        lip_corner_L   |-> "FACIAL_L_LipCorner",
        lip_corner_R   |-> "FACIAL_R_LipCorner",
        lip_upper_L    |-> "FACIAL_L_LipUpperOuter",
        lip_upper_R    |-> "FACIAL_R_LipUpperOuter",
        lip_lower_L    |-> "FACIAL_L_LipLowerOuter",
        lip_lower_R    |-> "FACIAL_R_LipLowerOuter",
        cheek_L        |-> "FACIAL_L_CheekOuter",
        cheek_R        |-> "FACIAL_R_CheekOuter",
        cheek_upper_L  |-> "FACIAL_L_CheekInner",
        cheek_upper_R  |-> "FACIAL_R_CheekInner",
        forehead_mid   |-> "FACIAL_C_Forehead",
        forehead_L     |-> "FACIAL_L_ForeheadIn",
        forehead_R     |-> "FACIAL_R_ForeheadIn",
        ear_L          |-> "FACIAL_L_Ear",
        ear_R          |-> "FACIAL_R_Ear" ],
    rigify |->
      [ nose_bridge   |-> "nose_master",
        nose_tip      |-> "nose.004",
        nose_L        |-> "nose.L.001",
        nose_R        |-> "nose.R.001",
        jaw           |-> "jaw_master",
        jaw_L         |-> "jaw.L",
        jaw_R         |-> "jaw.R",
        chin          |-> "chin",
        eye_L         |-> "eye.L",
        eye_R         |-> "eye.R",
        brow_inner_L  |-> "brow.B.L.001",
        brow_inner_R  |-> "brow.B.R.001",
        brow_mid_L    |-> "brow.B.L.002",
        brow_mid_R    |-> "brow.B.R.002",
        brow_outer_L  |-> "brow.B.L.003",
        brow_outer_R  |-> "brow.B.R.003",
        lip_upper_mid |-> "lip.T",
        lip_lower_mid |-> "lip.B",
        lip_corner_L  |-> "lips.L",
        lip_corner_R  |-> "lips.R",
        cheek_L       |-> "cheek.B.L",
        cheek_R       |-> "cheek.B.R",
        ear_L         |-> "ear.L",
        ear_R         |-> "ear.R" ],
    generic |->
      [ nose_bridge   |-> "nose_bridge",
        nose_tip      |-> "nose_tip",
        nose_L        |-> "nose.L",
        nose_R        |-> "nose.R",
        jaw           |-> "jaw",
        jaw_L         |-> "jaw.L",
        jaw_R         |-> "jaw.R",
        chin          |-> "chin",
        eye_L         |-> "eye.L",
        eye_R         |-> "eye.R",
        brow_inner_L  |-> "brow_inner.L",
        brow_inner_R  |-> "brow_inner.R",
        brow_mid_L    |-> "brow_mid.L",
        brow_mid_R    |-> "brow_mid.R",
        brow_outer_L  |-> "brow_outer.L",
        brow_outer_R  |-> "brow_outer.R",
        lip_upper_mid |-> "lip_upper",
        lip_lower_mid |-> "lip_lower",
        lip_corner_L  |-> "lip_corner.L",
        lip_corner_R  |-> "lip_corner.R",
        cheek_L       |-> "cheek.L",
        cheek_R       |-> "cheek.R",
        ear_L         |-> "ear.L",
        ear_R         |-> "ear.R" ] ]

\* semantic_layer/face_map.py: the feature catalog in insertion order
\* (the description texts are left out; nothing reads them)
FACIAL_FEATURE_MAP ==
  << <<"nose_width",
        [category |-> "nose", range |-> <<-1000, 1000>>,
         operations |->
          << [bone |-> "nose_L", transform |-> "location", axis |-> "X", multiplier |-> 5],
             [bone |-> "nose_R", transform |-> "location", axis |-> "X", multiplier |-> -5],
             [bone |-> "nostril_L", transform |-> "location", axis |-> "X", multiplier |-> 4],
             [bone |-> "nostril_R", transform |-> "location", axis |-> "X", multiplier |-> -4] >>]>>,
     <<"nose_length",
        [category |-> "nose", range |-> <<-1000, 1000>>,
         operations |->
          << [bone |-> "nose_tip", transform |-> "location", axis |-> "Y", multiplier |-> -6] >>]>>,
     <<"nose_tip_height",
        [category |-> "nose", range |-> <<-1000, 1000>>,
         operations |->
          << [bone |-> "nose_tip", transform |-> "location", axis |-> "Z", multiplier |-> 4] >>]>>,
     <<"nose_bridge_width",
        [category |-> "nose", range |-> <<-1000, 1000>>,
         operations |->
          << [bone |-> "nose_bridge", transform |-> "scale", axis |-> "X", multiplier |-> 300] >>]>>,
     <<"nose_bridge_height",
        [category |-> "nose", range |-> <<-1000, 1000>>,
         operations |->
          << [bone |-> "nose_bridge", transform |-> "location", axis |-> "Y", multiplier |-> -4] >>]>>,
     <<"jaw_width",
        [category |-> "jaw", range |-> <<-1000, 1000>>,
         operations |->
          << [bone |-> "jaw_L", transform |-> "location", axis |-> "X", multiplier |-> 8],
             [bone |-> "jaw_R", transform |-> "location", axis |-> "X", multiplier |-> -8] >>]>>,
     <<"jaw_height",
        [category |-> "jaw", range |-> <<-1000, 1000>>,
         operations |->
          << [bone |-> "jaw", transform |-> "location", axis |-> "Z", multiplier |-> -6] >>]>>,
     <<"jaw_angle",
        [category |-> "jaw", range |-> <<-1000, 1000>>,
         operations |->
          << [bone |-> "jaw_L", transform |-> "location", axis |-> "Z", multiplier |-> -4],
             [bone |-> "jaw_R", transform |-> "location", axis |-> "Z", multiplier |-> -4],
             [bone |-> "jaw_L", transform |-> "location", axis |-> "X", multiplier |-> -3],
             [bone |-> "jaw_R", transform |-> "location", axis |-> "X", multiplier |-> 3] >>]>>,
     <<"chin_prominence",
        [category |-> "jaw", range |-> <<-1000, 1000>>,
         operations |->
          << [bone |-> "chin", transform |-> "location", axis |-> "Y", multiplier |-> -5] >>]>>,
     <<"chin_width",
        [category |-> "jaw", range |-> <<-1000, 1000>>,
         operations |->
          << [bone |-> "chin_L", transform |-> "location", axis |-> "X", multiplier |-> 4],
             [bone |-> "chin_R", transform |-> "location", axis |-> "X", multiplier |-> -4] >>]>>,
     <<"chin_height",
        [category |-> "jaw", range |-> <<-1000, 1000>>,
         operations |->
          << [bone |-> "chin", transform |-> "location", axis |-> "Z", multiplier |-> -5] >>]>>,
     <<"eye_size",
        [category |-> "eyes", range |-> <<-1000, 1000>>,
         operations |->
          << [bone |-> "eyelid_upper_L", transform |-> "location", axis |-> "Z", multiplier |-> 3],
             [bone |-> "eyelid_upper_R", transform |-> "location", axis |-> "Z", multiplier |-> 3],
             [bone |-> "eyelid_lower_L", transform |-> "location", axis |-> "Z", multiplier |-> -2],
             [bone |-> "eyelid_lower_R", transform |-> "location", axis |-> "Z", multiplier |-> -2] >>]>>,
     <<"eye_spacing",
        [category |-> "eyes", range |-> <<-1000, 1000>>,
         operations |->
          << [bone |-> "eye_L", transform |-> "location", axis |-> "X", multiplier |-> -5],
             [bone |-> "eye_R", transform |-> "location", axis |-> "X", multiplier |-> 5] >>]>>,
     <<"eye_tilt",
        [category |-> "eyes", range |-> <<-1000, 1000>>,
         operations |->
          << [bone |-> "eyelid_upper_L", transform |-> "rotation", axis |-> "Y", multiplier |-> 5000],
             [bone |-> "eyelid_upper_R", transform |-> "rotation", axis |-> "Y", multiplier |-> -5000] >>]>>,
     <<"eye_depth",
        [category |-> "eyes", range |-> <<-1000, 1000>>,
         operations |->
          << [bone |-> "eye_L", transform |-> "location", axis |-> "Y", multiplier |-> 4],
             [bone |-> "eye_R", transform |-> "location", axis |-> "Y", multiplier |-> 4] >>]>>,
     <<"brow_height",
        [category |-> "brows", range |-> <<-1000, 1000>>,
         operations |->
          << [bone |-> "brow_inner_L", transform |-> "location", axis |-> "Z", multiplier |-> 4],
             [bone |-> "brow_inner_R", transform |-> "location", axis |-> "Z", multiplier |-> 4],
             [bone |-> "brow_mid_L", transform |-> "location", axis |-> "Z", multiplier |-> 4],
             [bone |-> "brow_mid_R", transform |-> "location", axis |-> "Z", multiplier |-> 4],
             [bone |-> "brow_outer_L", transform |-> "location", axis |-> "Z", multiplier |-> 4],
             [bone |-> "brow_outer_R", transform |-> "location", axis |-> "Z", multiplier |-> 4] >>]>>,
     <<"brow_arch",
        [category |-> "brows", range |-> <<-1000, 1000>>,
         operations |->
          << [bone |-> "brow_inner_L", transform |-> "location", axis |-> "Z", multiplier |-> -2],
             [bone |-> "brow_inner_R", transform |-> "location", axis |-> "Z", multiplier |-> -2],
             [bone |-> "brow_mid_L", transform |-> "location", axis |-> "Z", multiplier |-> 4],
             [bone |-> "brow_mid_R", transform |-> "location", axis |-> "Z", multiplier |-> 4],
             [bone |-> "brow_outer_L", transform |-> "location", axis |-> "Z", multiplier |-> -1],
             [bone |-> "brow_outer_R", transform |-> "location", axis |-> "Z", multiplier |-> -1] >>]>>,
     <<"brow_spacing",
        [category |-> "brows", range |-> <<-1000, 1000>>,
         operations |->
          << [bone |-> "brow_inner_L", transform |-> "location", axis |-> "X", multiplier |-> -3],
             [bone |-> "brow_inner_R", transform |-> "location", axis |-> "X", multiplier |-> 3] >>]>>,
     <<"lip_fullness_upper",
        [category |-> "lips", range |-> <<-1000, 1000>>,
         operations |->
          << [bone |-> "lip_upper_mid", transform |-> "location", axis |-> "Y", multiplier |-> -3],
             [bone |-> "lip_upper_mid", transform |-> "location", axis |-> "Z", multiplier |-> 1],
             [bone |-> "lip_upper_L", transform |-> "location", axis |-> "Y", multiplier |-> -2],
             [bone |-> "lip_upper_R", transform |-> "location", axis |-> "Y", multiplier |-> -2] >>]>>,
     <<"lip_fullness_lower",
        [category |-> "lips", range |-> <<-1000, 1000>>,
         operations |->
          << [bone |-> "lip_lower_mid", transform |-> "location", axis |-> "Y", multiplier |-> -3],
             [bone |-> "lip_lower_mid", transform |-> "location", axis |-> "Z", multiplier |-> -1],
             [bone |-> "lip_lower_L", transform |-> "location", axis |-> "Y", multiplier |-> -2],
             [bone |-> "lip_lower_R", transform |-> "location", axis |-> "Y", multiplier |-> -2] >>]>>,
     <<"lip_width",
        [category |-> "lips", range |-> <<-1000, 1000>>,
         operations |->
          << [bone |-> "lip_corner_L", transform |-> "location", axis |-> "X", multiplier |-> 5],
             [bone |-> "lip_corner_R", transform |-> "location", axis |-> "X", multiplier |-> -5] >>]>>,
     <<"lip_height",
        [category |-> "lips", range |-> <<-1000, 1000>>,
         operations |->
          << [bone |-> "lip_upper_mid", transform |-> "location", axis |-> "Z", multiplier |-> 3],
             [bone |-> "lip_lower_mid", transform |-> "location", axis |-> "Z", multiplier |-> 3],
             [bone |-> "lip_corner_L", transform |-> "location", axis |-> "Z", multiplier |-> 3],
             [bone |-> "lip_corner_R", transform |-> "location", axis |-> "Z", multiplier |-> 3] >>]>>,
     <<"cheekbone_height",
        [category |-> "cheeks", range |-> <<-1000, 1000>>,
         operations |->
          << [bone |-> "cheek_upper_L", transform |-> "location", axis |-> "Z", multiplier |-> 5],
             [bone |-> "cheek_upper_R", transform |-> "location", axis |-> "Z", multiplier |-> 5] >>]>>,
     <<"cheekbone_prominence",
        [category |-> "cheeks", range |-> <<-1000, 1000>>,
         operations |->
          << [bone |-> "cheek_L", transform |-> "location", axis |-> "X", multiplier |-> 4],
             [bone |-> "cheek_R", transform |-> "location", axis |-> "X", multiplier |-> -4],
             [bone |-> "cheek_L", transform |-> "location", axis |-> "Y", multiplier |-> -3],
             [bone |-> "cheek_R", transform |-> "location", axis |-> "Y", multiplier |-> -3] >>]>>,
     <<"cheek_fullness",
        [category |-> "cheeks", range |-> <<-1000, 1000>>,
         operations |->
          << [bone |-> "cheek_L", transform |-> "location", axis |-> "Y", multiplier |-> -5],
             [bone |-> "cheek_R", transform |-> "location", axis |-> "Y", multiplier |-> -5],
             [bone |-> "cheek_L", transform |-> "location", axis |-> "X", multiplier |-> 3],
             [bone |-> "cheek_R", transform |-> "location", axis |-> "X", multiplier |-> -3] >>]>>,
     <<"forehead_height",
        [category |-> "forehead", range |-> <<-1000, 1000>>,
         operations |->
          << [bone |-> "forehead_mid", transform |-> "location", axis |-> "Z", multiplier |-> 6],
             [bone |-> "forehead_L", transform |-> "location", axis |-> "Z", multiplier |-> 5],
             [bone |-> "forehead_R", transform |-> "location", axis |-> "Z", multiplier |-> 5] >>]>>,
     <<"forehead_width",
        [category |-> "forehead", range |-> <<-1000, 1000>>,
         operations |->
          << [bone |-> "forehead_L", transform |-> "location", axis |-> "X", multiplier |-> 5],
             [bone |-> "forehead_R", transform |-> "location", axis |-> "X", multiplier |-> -5] >>]>>,
     <<"forehead_slope",
        [category |-> "forehead", range |-> <<-1000, 1000>>,
         operations |->
          << [bone |-> "forehead_mid", transform |-> "location", axis |-> "Y", multiplier |-> -5] >>]>>,
     <<"ear_size",
        [category |-> "ears", range |-> <<-1000, 1000>>,
         operations |->
          << [bone |-> "ear_L", transform |-> "scale", axis |-> "X", multiplier |-> 300],
             [bone |-> "ear_L", transform |-> "scale", axis |-> "Z", multiplier |-> 300],
             [bone |-> "ear_R", transform |-> "scale", axis |-> "X", multiplier |-> 300],
             [bone |-> "ear_R", transform |-> "scale", axis |-> "Z", multiplier |-> 300] >>]>>,
     <<"ear_angle",
        [category |-> "ears", range |-> <<-1000, 1000>>,
         operations |->
          << [bone |-> "ear_L", transform |-> "rotation", axis |-> "Y", multiplier |-> 10000],
             [bone |-> "ear_R", transform |-> "rotation", axis |-> "Y", multiplier |-> -10000] >>]>>,
     <<"face_width",
        [category |-> "face", range |-> <<-1000, 1000>>,
         operations |->
          << [bone |-> "jaw_L", transform |-> "location", axis |-> "X", multiplier |-> 6],
             [bone |-> "jaw_R", transform |-> "location", axis |-> "X", multiplier |-> -6],
             [bone |-> "cheek_L", transform |-> "location", axis |-> "X", multiplier |-> 5],
             [bone |-> "cheek_R", transform |-> "location", axis |-> "X", multiplier |-> -5],
             [bone |-> "forehead_L", transform |-> "location", axis |-> "X", multiplier |-> 4],
             [bone |-> "forehead_R", transform |-> "location", axis |-> "X", multiplier |-> -4] >>]>>,
     <<"face_length",
        [category |-> "face", range |-> <<-1000, 1000>>,
         operations |->
          << [bone |-> "chin", transform |-> "location", axis |-> "Z", multiplier |-> -6],
             [bone |-> "jaw", transform |-> "location", axis |-> "Z", multiplier |-> -4],
             [bone |-> "forehead_mid", transform |-> "location", axis |-> "Z", multiplier |-> 4] >>]>> >>

\* semantic_layer/presets.py: preset name -> features, in insertion order
FACE_PRESETS ==
  << <<"angular_face",
        << <<"jaw_width", -300>>, <<"jaw_angle", 700>>, <<"cheekbone_prominence", 600>>, <<"cheekbone_height", 300>>, <<"chin_prominence", 400>>, <<"face_width", -200>>, <<"cheek_fullness", -300>> >>>>,
     <<"round_face",
        << <<"jaw_width", 400>>, <<"jaw_angle", -500>>, <<"cheekbone_prominence", -200>>, <<"face_width", 500>>, <<"chin_prominence", -300>>, <<"chin_width", 300>>, <<"cheek_fullness", 600>> >>>>,
     <<"oval_face",
        << <<"jaw_width", -100>>, <<"face_width", 100>>, <<"face_length", 200>>, <<"chin_prominence", 100>>, <<"cheekbone_prominence", 200>> >>>>,
     <<"heart_face",
        << <<"forehead_width", 400>>, <<"cheekbone_prominence", 300>>, <<"jaw_width", -500>>, <<"chin_width", -400>>, <<"chin_prominence", 200>> >>>>,
     <<"square_face",
        << <<"jaw_width", 500>>, <<"jaw_angle", 800>>, <<"forehead_width", 300>>, <<"chin_width", 400>>, <<"face_width", 300>>, <<"cheekbone_prominence", 100>> >>>>,
     <<"button_nose",
        << <<"nose_width", -300>>, <<"nose_length", -500>>, <<"nose_tip_height", 400>>, <<"nose_bridge_width", -200>> >>>>,
     <<"roman_nose",
        << <<"nose_bridge_height", 700>>, <<"nose_length", 300>>, <<"nose_tip_height", -200>>, <<"nose_width", -100>> >>>>,
     <<"wide_nose",
        << <<"nose_width", 600>>, <<"nose_bridge_width", 400>>, <<"nose_bridge_height", -200>> >>>>,
     <<"narrow_nose",
        << <<"nose_width", -500>>, <<"nose_bridge_width", -400>>, <<"nose_bridge_height", 200>> >>>>,
     <<"large_eyes",
        << <<"eye_size", 600>>, <<"eye_spacing", 100>>, <<"brow_height", 300>> >>>>,
     <<"almond_eyes",
        << <<"eye_size", -100>>, <<"eye_tilt", 400>>, <<"eye_spacing", 0>> >>>>,
     <<"deep_set_eyes",
        << <<"eye_depth", 500>>, <<"brow_height", -300>>, <<"eye_size", -200>> >>>>,
     <<"strong_brow",
        << <<"brow_height", -300>>, <<"brow_arch", -400>>, <<"brow_spacing", -200>> >>>>,
     <<"arched_brows",
        << <<"brow_height", 300>>, <<"brow_arch", 700>> >>>>,
     <<"full_lips",
        << <<"lip_fullness_upper", 600>>, <<"lip_fullness_lower", 700>>, <<"lip_width", 200>> >>>>,
     <<"thin_lips",
        << <<"lip_fullness_upper", -500>>, <<"lip_fullness_lower", -400>>, <<"lip_width", -200>> >>>>,
     <<"wide_mouth",
        << <<"lip_width", 600>>, <<"lip_fullness_upper", 100>>, <<"lip_fullness_lower", 100>> >>>>,
     <<"heroic",
        << <<"jaw_width", 300>>, <<"jaw_angle", 600>>, <<"chin_prominence", 500>>, <<"cheekbone_prominence", 500>>, <<"cheekbone_height", 300>>, <<"brow_height", -200>>, <<"nose_bridge_height", 300>>, <<"face_width", 100>> >>>>,
     <<"delicate",
        << <<"face_width", -300>>, <<"jaw_width", -400>>, <<"nose_width", -300>>, <<"nose_length", -200>>, <<"cheekbone_height", 400>>, <<"cheekbone_prominence", 300>>, <<"lip_fullness_upper", 200>>, <<"lip_fullness_lower", 200>>, <<"brow_arch", 300>>, <<"eye_size", 300>> >>>>,
     <<"rugged",
        << <<"jaw_width", 500>>, <<"jaw_angle", 400>>, <<"chin_prominence", 300>>, <<"nose_bridge_height", 500>>, <<"nose_width", 200>>, <<"brow_height", -400>>, <<"eye_depth", 400>>, <<"cheek_fullness", -300>>, <<"forehead_slope", 300>> >>>>,
     <<"youthful",
        << <<"face_width", 200>>, <<"eye_size", 500>>, <<"nose_length", -300>>, <<"nose_width", -200>>, <<"nose_tip_height", 200>>, <<"cheek_fullness", 400>>, <<"lip_fullness_upper", 300>>, <<"lip_fullness_lower", 300>>, <<"jaw_angle", -300>>, <<"brow_height", 200>>, <<"forehead_height", 200>> >>>> >>

----------------------------------------------------------------------------
(* Python dict and number helpers *)

\* dict.keys() of an ordered dict
Keys(d) == { d[i][1] : i \in DOMAIN d }

\* position of key k in an ordered dict (0 when absent)
IndexOf(d, k) == IF k \in Keys(d) THEN CHOOSE i \in DOMAIN d : d[i][1] = k ELSE 0

\* d[k] for a key that is present
Lookup(d, k) == d[IndexOf(d, k)][2]

\* d.get(k, default)
Get(d, k, default) == IF k \in Keys(d) THEN Lookup(d, k) ELSE default

Min(a, b) == IF b < a THEN b ELSE a
Max(a, b) == IF b > a THEN b ELSE a
Abs(x) == IF x < 0 THEN -x ELSE x

\* exact fractions <<num, den>>, den > 0
RatLe(x, y) == x[1] * y[2] <= y[1] * x[2]
RatLt(x, y) == x[1] * y[2] < y[1] * x[2]
RatEq(x, y) == x[1] * y[2] = y[1] * x[2]
RatAbs(x) == <<Abs(x[1]), x[2]>>
RatMin(x, y) == IF RatLt(y, x) THEN y ELSE x
RatMax(x, y) == IF RatLt(x, y) THEN y ELSE x
RatOne == <<1, 1>>
RatMinusOne == <<-1, 1>>
RatZero == <<0, 1>>

RECURSIVE GCD(_, _)
GCD(a, b) == IF b = 0 THEN a ELSE GCD(b, a % b)

\* the fraction n/d (d > 0) in lowest terms
Frac(n, d) ==
    LET g == GCD(Abs(n), d)
    IN <<n \div g, d \div g>>

RatAdd(x, y) == Frac(x[1] * y[2] + y[1] * x[2], x[2] * y[2])

RatMul(x, y) == Frac(x[1] * y[1], x[2] * y[2])

----------------------------------------------------------------------------
(* face_reconstruction/feature_mapper.py *)

\* deviations (in standard deviations) of the test suite's extreme values
ExtremeDev == 10

\* Python's max(-1.0, min(1.0, value))
Clamp(value) == RatMax(RatMinusOne, RatMin(RatOne, value))

ratio_to_feature_value_noclamp(measured, mean, std, sensitivity) ==
    IF std <= 0 THEN RatZero
    ELSE <<(measured - mean) * 10, std * sensitivity>>

ratio_to_feature_value_times(measured, mean, std, sensitivity) ==
    IF std <= 0 THEN RatZero
    ELSE Clamp(<<(measured - mean) * sensitivity, std * 10>>)

\* _ratio_to_feature_value: z = (measured - mean) / std, value = z / sensitivity
\* (sensitivity in tenths, so z / sensitivity = (measured - mean) * 10 / (std * s))
ratio_to_feature_value(measured, mean, std, sensitivity) ==
    IF std <= 0 THEN RatZero
    ELSE Clamp(<<(measured - mean) * 10, std * sensitivity>>)

RECURSIVE map_loop(_, _, _)
\* the for loop of map_proportions_to_features from entry i on
map_loop(proportions, sensitivity, i) ==
    IF i > Len(PROPORTION_TO_FEATURE) THEN <<>>
    ELSE LET feature_name == PROPORTION_TO_FEATURE[i][1]
             ratio_key == PROPORTION_TO_FEATURE[i][2]
             value ==
                 IF ratio_key \notin DOMAIN proportions THEN RatZero
                 ELSE IF ratio_key \notin DOMAIN REFERENCE_PROPORTIONS THEN RatZero
                 ELSE ratio_to_feature_value(proportions[ratio_key],
                                             REFERENCE_PROPORTIONS[ratio_key][1],
                                             REFERENCE_PROPORTIONS[ratio_key][2],
                                             sensitivity)
         IN <<<<feature_name, value>>>> \o map_loop(proportions, sensitivity, i + 1)

map_proportions_to_features_skip(proportions, sensitivity) ==
    SelectSeq(map_loop(proportions, DEFAULT_SENSITIVITY, 1),
              LAMBDA kv : Lookup(PROPORTION_TO_FEATURE, kv[1]) \in DOMAIN proportions)

\* map_proportions_to_features; sensitivity is <<>> (None) or <<tenths>>
map_proportions_to_features(proportions, sensitivity) ==
    LET s == IF sensitivity = <<>> THEN DEFAULT_SENSITIVITY ELSE sensitivity[1]
    IN IF DOMAIN proportions = {}
       THEN [i \in DOMAIN PROPORTION_TO_FEATURE |->
                <<PROPORTION_TO_FEATURE[i][1], RatZero>>]
       ELSE map_loop(proportions, s, 1)

\* get_feature_confidence; proportions is <<>> (None) or <<dict>>.
\* `if proportions and ...`: None and the empty dict are both falsy.
get_feature_confidence(proportions) ==
    [i \in DOMAIN PROPORTION_TO_FEATURE |->
        LET ratio_key == PROPORTION_TO_FEATURE[i][2]
            conf == IF ratio_key \in DOMAIN MEASUREMENT_CONFIDENCE
                    THEN MEASUREMENT_CONFIDENCE[ratio_key] ELSE "low"
            truthy == proportions # <<>> /\ DOMAIN proportions[1] # {}
        IN <<PROPORTION_TO_FEATURE[i][1],
             IF truthy /\ ratio_key \notin DOMAIN proportions[1]
             THEN "low" ELSE conf>>]

\* an insertion that puts x before its equals: an unstable sort
InsertDescUnstable(sorted, x) ==
    LET before == { i \in DOMAIN sorted : RatLt(RatAbs(x[2]), RatAbs(sorted[i][2])) }
        n == Cardinality(before)
    IN SubSeq(sorted, 1, n) \o <<x>> \o SubSeq(sorted, n + 1, Len(sorted))

\* list.insert keeping the list sorted by |value| descending, x after its equals
InsertDesc(sorted, x) ==
    LET before == { i \in DOMAIN sorted : ~ RatLt(RatAbs(sorted[i][2]), RatAbs(x[2])) }
        n == Cardinality(before)
    IN SubSeq(sorted, 1, n) \o <<x>> \o SubSeq(sorted, n + 1, Len(sorted))

RECURSIVE SortedDesc(_, _)
\* sorted(items, key=lambda x: abs(x[1]), reverse=True) of the first n items:
\* Python's sort is stable, also under reverse=True
SortedDesc(items, n) ==
    IF n = 0 THEN <<>> ELSE InsertDesc(SortedDesc(items, n - 1), items[n])

\* get_top_distinctive_features: sorted_features[:count], count >= 0
get_top_distinctive_features(features, count) ==
    SubSeq(SortedDesc(features, Len(features)), 1, Min(count, Len(features)))

----------------------------------------------------------------------------
(* Inputs of the feature mapper *)

RatioKeys == { PROPORTION_TO_FEATURE[i][2] : i \in DOMAIN PROPORTION_TO_FEATURE }

\* a ratio key no table knows
UnknownRatio == "ipd_ratio"

Devs == (-MaxDev .. MaxDev) \cup {-ExtremeDev, ExtremeDev}

\* the ratio that lies k standard deviations from its mean
Measured(r, k) ==
    IF r \in DOMAIN REFERENCE_PROPORTIONS
    THEN REFERENCE_PROPORTIONS[r][1] + k * REFERENCE_PROPORTIONS[r][2]
    ELSE k

EmptyProportions == [r \in {} |-> 0]
FullProportions(k) == [r \in RatioKeys |-> Measured(r, k)]
Without(p, r) == [x \in (DOMAIN p) \ {r} |-> p[x]]
With(p, r, v) == [x \in (DOMAIN p) \cup {r} |-> IF x = r THEN v ELSE p[x]]

\* empty, full (every ratio at the same deviation), and each of these with one
\* ratio removed or set to another deviation: partial sets of 1 and of 31 keys
ProportionSets ==
    LET bases == {EmptyProportions} \cup { FullProportions(k) : k \in Devs }
    IN bases
       \cup { Without(b, r) : b \in bases, r \in RatioKeys }
       \cup { With(b, r, Measured(r, k)) :
                 b \in bases, r \in RatioKeys \cup {UnknownRatio}, k \in Devs }

\* sensitivities in tenths: 1.0, the default 1.5, and 3.0
SensSet == {10, DEFAULT_SENSITIVITY, 30}
SensArgs == {<<>>} \cup { <<s>> : s \in SensSet }

\* a preset's features as a feature map of exact fractions
PresetFeatures(i) ==
    [j \in DOMAIN FACE_PRESETS[i][2] |->
        <<FACE_PRESETS[i][2][j][1], <<FACE_PRESETS[i][2][j][2], 1000>>>>]

FeatureMaps ==
    { map_proportions_to_features(p, <<>>) : p \in ProportionSets }
    \cup { PresetFeatures(i) : i \in DOMAIN FACE_PRESETS }

Counts == {0, 1, 3, 5, Len(PROPORTION_TO_FEATURE), Len(PROPORTION_TO_FEATURE) + 1}

MapperCalls ==
    [op : {"map_proportions_to_features"},
     proportions : ProportionSets, sensitivity : SensArgs]
    \cup [op : {"get_feature_confidence"},
          proportions : {<<>>} \cup { <<p>> : p \in ProportionSets }]
    \cup [op : {"get_top_distinctive_features"}, features : FeatureMaps, count : Counts]
    \cup [op : {"ratio_to_feature_value"},
          measured : {-500, 0, 400, 500, 600, 1500}, mean : {0, 500},
          std : {-100, 0, 100}, sensitivity : SensSet]

----------------------------------------------------------------------------
(* The feature mapper applied to a drawn call *)

\* nothing called yet; face_reconstruction and semantic_layer.presets do not
\* import semantic_layer.face_map, so the catalog global is not loaded
\* BlenderConnection.__init__: no socket, no command under way
NewClient == [socket |-> 0, pc |-> "idle", attempt |-> 0]

\* MCPTCPServer.__init__ and start: running, nothing received
NewServer == [received |-> <<>>]

\* CommandQueue.__init__: an empty queue and an empty result store
NewCommandQueue == [command_queue |-> <<>>, results |-> <<>>, submitted |-> 0]

\* a TCP thread outside dispatch
IdleThread == [pc |-> "idle", command_id |-> 0, returned |-> <<>>]

\* the main thread between two runs of the timer callback
IdleMainThread == [pc |-> "idle", current |-> <<>>, executed |-> <<>>]

\* no connection made, the add-on just started
Offline ==
    /\ client = NewClient
    /\ wire = <<>>
    /\ server = NewServer
    /\ commandQueue = NewCommandQueue
    /\ threads = [t \in 1..MaxThreads |-> IdleThread]
    /\ mainThread = IdleMainThread

Idle == /\ ret = <<>>
        /\ done = FALSE
        /\ featureMap = <<>>
        /\ armature = <<>>
        /\ sent = <<>>
        /\ pose = <<>>
        /\ Offline

Return(value) == /\ ~ done
                 /\ ret' = value
                 /\ done' = TRUE
                 /\ UNCHANGED call

InitMapper == call \in MapperCalls /\ Idle

MapProportionsToFeatures ==
    /\ call.op = "map_proportions_to_features"
    /\ Return(map_proportions_to_features(call.proportions, call.sensitivity))
    /\ UNCHANGED <<featureMap, armature, sent, pose, linkvars, bridgevars>>

GetFeatureConfidence ==
    /\ call.op = "get_feature_confidence"
    /\ Return(get_feature_confidence(call.proportions))
    /\ UNCHANGED <<featureMap, armature, sent, pose, linkvars, bridgevars>>

GetTopDistinctiveFeatures ==
    /\ call.op = "get_top_distinctive_features"
    /\ Return(get_top_distinctive_features(call.features, call.count))
    /\ UNCHANGED <<featureMap, armature, sent, pose, linkvars, bridgevars>>

RatioToFeatureValue ==
    /\ call.op = "ratio_to_feature_value"
    /\ Return(ratio_to_feature_value(call.measured, call.mean, call.std,
                                     call.sensitivity))
    /\ UNCHANGED <<featureMap, armature, sent, pose, linkvars, bridgevars>>

NextMapper ==
    \/ MapProportionsToFeatures
    \/ GetFeatureConfidence
    \/ GetTopDistinctiveFeatures
    \/ RatioToFeatureValue

SpecMapper == InitMapper /\ [][NextMapper]_vars

----------------------------------------------------------------------------
(* Claims about the feature mapper, checked under SpecMapper *)

CatalogNames == { FACIAL_FEATURE_MAP[i][1] : i \in DOMAIN FACIAL_FEATURE_MAP }

Mapped == done /\ call.op = "map_proportions_to_features"

\* the sensitivity a map call runs with
EffectiveSensitivity ==
    IF call.sensitivity = <<>> THEN DEFAULT_SENSITIVITY ELSE call.sensitivity[1]

\* r = clamp((dev / std) / s, -1, 1), s in tenths, stated without the operator
IsClampedQuotient(r, dev, std, s) ==
    IF dev * 10 >= std * s THEN r = RatOne
    ELSE IF dev * 10 <= -(std * s) THEN r = RatMinusOne
    ELSE r[2] > 0 /\ r[1] * std * s = dev * 10 * r[2]

\* C1: map_proportions_to_features never fails on missing data: the result has
\* exactly the 32 catalog feature names as keys (each once); a feature whose
\* ratio key is absent from the input or has no reference entry is exactly 0.0;
\* for the empty input all 32 values are exactly 0.0.
C1_MissingDataDefaultsToZero ==
    Mapped =>
        /\ Len(ret) = 32
        /\ Keys(ret) = CatalogNames
        /\ Cardinality(Keys(ret)) = Len(ret)
        /\ \A i \in DOMAIN ret :
              LET ratio_key == Lookup(PROPORTION_TO_FEATURE, ret[i][1])
              IN (ratio_key \notin DOMAIN call.proportions
                  \/ ratio_key \notin DOMAIN REFERENCE_PROPORTIONS)
                 => ret[i][2] = RatZero
        /\ (call.proportions = EmptyProportions
            => \A i \in DOMAIN ret : ret[i][2] = RatZero)

\* C1 witnesses: the empty set, and a partial set (some ratio present, some absent)
C1_Witness ==
    /\ Mapped
    /\ \E r \in RatioKeys : r \in DOMAIN call.proportions
    /\ \E r \in RatioKeys : r \notin DOMAIN call.proportions
    /\ \E i \in DOMAIN ret : ret[i][2] # RatZero

\* C2: for every ratio present in both the input and the reference model the
\* mapped feature equals clamp(((measured - mean) / std) / sensitivity, -1, 1)
\* (0.0 when std <= 0); a ratio equal to its mean maps to 0; and for a fixed
\* measured value the absolute feature value never increases when the
\* sensitivity increases.
C2_ClampedZScore ==
    /\ Mapped =>
         \A i \in DOMAIN ret :
            LET ratio_key == Lookup(PROPORTION_TO_FEATURE, ret[i][1])
            IN (ratio_key \in DOMAIN call.proportions
                /\ ratio_key \in DOMAIN REFERENCE_PROPORTIONS)
               => LET measured == call.proportions[ratio_key]
                      mean == REFERENCE_PROPORTIONS[ratio_key][1]
                      std == REFERENCE_PROPORTIONS[ratio_key][2]
                  IN /\ IsClampedQuotient(ret[i][2], measured - mean, std,
                                          EffectiveSensitivity)
                     /\ (measured = mean => ret[i][2][1] = 0)
                     /\ \A s2 \in SensSet :
                           s2 >= EffectiveSensitivity =>
                              RatLe(RatAbs(ratio_to_feature_value(measured, mean, std, s2)),
                                    RatAbs(ret[i][2]))
    /\ (done /\ call.op = "ratio_to_feature_value") =>
         /\ (call.std <= 0 => ret = RatZero)
         /\ (call.std > 0 =>
               IsClampedQuotient(ret, call.measured - call.mean, call.std,
                                 call.sensitivity))
         /\ (call.measured = call.mean => ret[1] = 0)
         /\ \A s2 \in SensSet :
               s2 >= call.sensitivity =>
                  RatLe(RatAbs(ratio_to_feature_value(call.measured, call.mean,
                                                      call.std, s2)),
                        RatAbs(ret))

\* C2 witness: an unclamped non-zero value at sensitivity 1.0 that is strictly
\* larger in absolute value than the value at 3.0
C2_Witness ==
    /\ Mapped
    /\ call.sensitivity = <<10>>
    /\ \E i \in DOMAIN ret :
          LET ratio_key == Lookup(PROPORTION_TO_FEATURE, ret[i][1])
          IN /\ ratio_key \in DOMAIN call.proportions
             /\ ret[i][2][1] # 0
             /\ RatLt(RatAbs(ratio_to_feature_value(
                                 call.proportions[ratio_key],
                                 REFERENCE_PROPORTIONS[ratio_key][1],
                                 REFERENCE_PROPORTIONS[ratio_key][2], 30)),
                      RatAbs(ret[i][2]))

\* C3: every value emitted by map_proportions_to_features lies in [-1.0, 1.0]
\* for every input and every positive sensitivity, and at the default
\* sensitivity a ratio of mean + 10*std maps to exactly +1.0 and mean - 10*std
\* to exactly -1.0.
C3_ValuesInUnitInterval ==
    Mapped =>
        \A i \in DOMAIN ret :
           /\ ret[i][2][2] > 0
           /\ RatLe(RatMinusOne, ret[i][2])
           /\ RatLe(ret[i][2], RatOne)
           /\ LET ratio_key == Lookup(PROPORTION_TO_FEATURE, ret[i][1])
              IN (call.sensitivity = <<>> /\ ratio_key \in DOMAIN call.proportions) =>
                    /\ (call.proportions[ratio_key] = Measured(ratio_key, ExtremeDev)
                           => ret[i][2] = RatOne)
                    /\ (call.proportions[ratio_key] = Measured(ratio_key, -ExtremeDev)
                           => ret[i][2] = RatMinusOne)

\* C3 witness: one feature clamped to +1.0 and another to -1.0 in the same result
C3_Witness ==
    /\ Mapped
    /\ call.sensitivity = <<>>
    /\ \E i, j \in DOMAIN ret :
          LET ri == Lookup(PROPORTION_TO_FEATURE, ret[i][1])
              rj == Lookup(PROPORTION_TO_FEATURE, ret[j][1])
          IN /\ ri \in DOMAIN call.proportions
             /\ rj \in DOMAIN call.proportions
             /\ call.proportions[ri] = Measured(ri, ExtremeDev)
             /\ ret[i][2] = RatOne
             /\ call.proportions[rj] = Measured(rj, -ExtremeDev)
             /\ ret[j][2] = RatMinusOne

\* the static tier of a feature's ratio
StaticTier(feature_name) ==
    MEASUREMENT_CONFIDENCE[Lookup(PROPORTION_TO_FEATURE, feature_name)]

\* C4 (as claimed): get_feature_confidence returns each feature's static tier,
\* except that whenever a proportion set is supplied and the feature's ratio is
\* not present in it the confidence is "low"; for every supplied set, the
\* empty one included.
C4_AbsentRatioIsLow ==
    (done /\ call.op = "get_feature_confidence") =>
        /\ Keys(ret) = CatalogNames
        /\ \A i \in DOMAIN ret :
              ret[i][2] =
                 IF /\ call.proportions # <<>>
                    /\ Lookup(PROPORTION_TO_FEATURE, ret[i][1])
                          \notin DOMAIN call.proportions[1]
                 THEN "low"
                 ELSE StaticTier(ret[i][1])

\* C5: get_top_distinctive_features(features, N) returns min(N, |features|)
\* (name, value) pairs of the input, the largest by absolute value, in
\* descending order of absolute value; two features of equal absolute value
\* appear in the order of the input feature map.
C5_TopByAbsStable ==
    (done /\ call.op = "get_top_distinctive_features") =>
        LET features == call.features
        IN /\ Len(ret) = Min(call.count, Len(features))
           /\ \A i \in DOMAIN ret :
                 /\ ret[i][1] \in Keys(features)
                 /\ ret[i] = features[IndexOf(features, ret[i][1])]
           /\ \A i, j \in DOMAIN ret :
                 i < j =>
                    /\ RatLe(RatAbs(ret[j][2]), RatAbs(ret[i][2]))
                    /\ (RatEq(RatAbs(ret[j][2]), RatAbs(ret[i][2]))
                        => IndexOf(features, ret[i][1]) < IndexOf(features, ret[j][1]))
           /\ \A k \in DOMAIN features :
                 features[k][1] \notin Keys(ret) =>
                    \A i \in DOMAIN ret :
                       /\ RatLe(RatAbs(features[k][2]), RatAbs(ret[i][2]))
                       /\ (RatEq(RatAbs(features[k][2]), RatAbs(ret[i][2]))
                           => IndexOf(features, ret[i][1]) < k)

\* C5 witness: a truncated ranking that holds a tie between two non-zero
\* values of opposite sign, and a strictly smaller value after them
C5_Witness ==
    /\ done
    /\ call.op = "get_top_distinctive_features"
    /\ 0 < Len(ret)
    /\ Len(ret) < Len(call.features)
    /\ \E i, j \in DOMAIN ret :
          /\ i < j
          /\ ret[i][2][1] # 0
          /\ ret[i][2] # ret[j][2]
          /\ RatEq(RatAbs(ret[i][2]), RatAbs(ret[j][2]))
    /\ \E i, j \in DOMAIN ret : RatLt(RatAbs(ret[j][2]), RatAbs(ret[i][2]))

----------------------------------------------------------------------------
(* semantic_layer/face_map.py: rig resolver *)

metahuman_markers == {"FACIAL_C_Jaw", "FACIAL_C_NoseTip", "FACIAL_L_Eye", "FACIAL_C_ForeheadMid"}
rigify_markers == {"jaw_master", "nose_master", "brow.B.L.001", "lip.T"}

\* set(bone_names) of a list
SetOf(list) == { list[i] : i \in DOMAIN list }

\* a detector that tries rigify before metahuman
detect_rig_type_rigify_first(bone_names) ==
    LET bone_set == SetOf(bone_names)
    IN IF Cardinality(rigify_markers \cap bone_set) >= 2 THEN "rigify"
       ELSE IF Cardinality(metahuman_markers \cap bone_set) >= 2 THEN "metahuman"
       ELSE "generic"

\* a detector that counts list entries instead of distinct names
detect_rig_type_counting(bone_names) ==
    IF Cardinality({ i \in DOMAIN bone_names : bone_names[i] \in metahuman_markers }) >= 2
    THEN "metahuman"
    ELSE IF Cardinality({ i \in DOMAIN bone_names : bone_names[i] \in rigify_markers }) >= 2
    THEN "rigify"
    ELSE "generic"

\* detect_rig_type
detect_rig_type(bone_names) ==
    LET bone_set == SetOf(bone_names)
    IN IF Cardinality(metahuman_markers \cap bone_set) >= 2 THEN "metahuman"
       ELSE IF Cardinality(rigify_markers \cap bone_set) >= 2 THEN "rigify"
       ELSE "generic"

\* a resolver with no fallback table for an unknown family
resolve_bone_name_no_fallback(generic_name, rig_type) ==
    IF rig_type \in DOMAIN BONE_ALIAS_MAPS
    THEN IF generic_name \in DOMAIN BONE_ALIAS_MAPS[rig_type]
         THEN BONE_ALIAS_MAPS[rig_type][generic_name]
         ELSE generic_name
    ELSE generic_name

\* resolve_bone_name: BONE_ALIAS_MAPS.get(rig_type, generic).get(name, name)
resolve_bone_name(generic_name, rig_type) ==
    LET alias_map == IF rig_type \in DOMAIN BONE_ALIAS_MAPS
                     THEN BONE_ALIAS_MAPS[rig_type]
                     ELSE BONE_ALIAS_MAPS["generic"]
    IN IF generic_name \in DOMAIN alias_map
       THEN alias_map[generic_name]
       ELSE generic_name

\* resolved = dict(op); resolved["bone"] = resolve_bone_name(op["bone"], rig_type)
resolved_op(op, rig_type) ==
    [op EXCEPT !.bone = resolve_bone_name(op.bone, rig_type)]

\* get_operations_for_feature on the catalog global
get_operations_for_feature(catalog, feature_name, rig_type) ==
    IF feature_name \notin Keys(catalog) THEN <<>>
    ELSE LET operations == Lookup(catalog, feature_name).operations
         IN [i \in DOMAIN operations |-> resolved_op(operations[i], rig_type)]

\* the catalog after a call that resolves in place (resolved = op, no copy)
catalog_after_get_operations_aliased(catalog, feature_name, rig_type) ==
    [i \in DOMAIN catalog |->
        IF catalog[i][1] # feature_name THEN catalog[i]
        ELSE <<catalog[i][1],
               [catalog[i][2] EXCEPT !.operations =
                   get_operations_for_feature(catalog, feature_name, rig_type)]>>]

\* the catalog after get_operations_for_feature: every write goes to the copy
\* dict(op), so no entry changes
catalog_after_get_operations(catalog, feature_name, rig_type) == catalog

----------------------------------------------------------------------------
(* The rig resolver applied to a drawn call *)

BoneNamePool == metahuman_markers \cup rigify_markers \cup {"Bone"}

BoneNameLists == UNION { [1..n -> BoneNamePool] : n \in 0..MaxBones }

RigTypes == {"metahuman", "rigify", "generic", "mixamo"}

Aliases ==
    UNION { DOMAIN BONE_ALIAS_MAPS[f] : f \in DOMAIN BONE_ALIAS_MAPS }
    \cup UNION { { FACIAL_FEATURE_MAP[i][2].operations[j].bone :
                       j \in DOMAIN FACIAL_FEATURE_MAP[i][2].operations } :
                    i \in DOMAIN FACIAL_FEATURE_MAP }
    \cup {"tongue", "FACIAL_C_Jaw"}

FeatureNames == CatalogNames \cup {"nonexistent_feature", "Nose_Width"}

RigCalls ==
    [op : {"detect_rig_type"}, bone_names : BoneNameLists]
    \cup [op : {"resolve_bone_name"}, generic_name : Aliases, rig_type : RigTypes]
    \cup [op : {"get_operations_for_feature"},
          feature_name : FeatureNames, rig_type : RigTypes]

\* semantic_layer.face_map is imported: the catalog global is loaded
InitRig ==
    /\ call \in RigCalls
    /\ ret = <<>>
    /\ done = FALSE
    /\ featureMap = FACIAL_FEATURE_MAP
    /\ armature = <<>>
    /\ sent = <<>>
    /\ pose = <<>>
    /\ Offline

DetectRigType ==
    /\ call.op = "detect_rig_type"
    /\ Return(detect_rig_type(call.bone_names))
    /\ UNCHANGED <<featureMap, armature, sent, pose, linkvars, bridgevars>>

ResolveBoneName ==
    /\ call.op = "resolve_bone_name"
    /\ Return(resolve_bone_name(call.generic_name, call.rig_type))
    /\ UNCHANGED <<featureMap, armature, sent, pose, linkvars, bridgevars>>

GetOperationsForFeature ==
    /\ call.op = "get_operations_for_feature"
    /\ Return(get_operations_for_feature(featureMap, call.feature_name, call.rig_type))
    /\ featureMap' = catalog_after_get_operations(featureMap, call.feature_name,
                                                  call.rig_type)
    /\ UNCHANGED <<armature, sent, pose, linkvars, bridgevars>>

NextRig ==
    \/ DetectRigType
    \/ ResolveBoneName
    \/ GetOperationsForFeature

SpecRig == InitRig /\ [][NextRig]_vars

----------------------------------------------------------------------------
(* Claims about the rig resolver, checked under SpecRig *)

\* how many of the markers occur in the list
MarkersIn(markers, bone_names) ==
    Cardinality({ m \in markers : \E i \in DOMAIN bone_names : bone_names[i] = m })

\* C6: detect_rig_type checks metahuman, rigify, generic in this order:
\* metahuman iff at least 2 of the 4 metahuman markers are present (also when
\* 2 or more rigify markers are present), otherwise rigify iff at least 2 of
\* the 4 rigify markers are, otherwise generic (also with exactly one marker of
\* each family).
C6_RigFamilyPriority ==
    (done /\ call.op = "detect_rig_type") =>
        LET mh == MarkersIn(metahuman_markers, call.bone_names)
            rg == MarkersIn(rigify_markers, call.bone_names)
        IN /\ (ret = "metahuman") <=> (mh >= 2)
           /\ (ret = "rigify") <=> (mh < 2 /\ rg >= 2)
           /\ (ret = "generic") <=> (mh < 2 /\ rg < 2)

\* C6 witness: two markers of each family present, metahuman returned
C6_Witness ==
    /\ done
    /\ call.op = "detect_rig_type"
    /\ MarkersIn(metahuman_markers, call.bone_names) >= 2
    /\ MarkersIn(rigify_markers, call.bone_names) >= 2
    /\ ret = "metahuman"

\* C7: resolve_bone_name never errors: it returns the family's table entry
\* when the alias is in the table and the alias itself when it is not; a
\* family without a table uses the generic table with the same fallback.
C7_AliasFallback ==
    (done /\ call.op = "resolve_bone_name") =>
        LET family == IF call.rig_type \in {"metahuman", "rigify", "generic"}
                      THEN call.rig_type ELSE "generic"
        IN /\ (call.generic_name \in DOMAIN BONE_ALIAS_MAPS[family]
               => ret = BONE_ALIAS_MAPS[family][call.generic_name])
           /\ (call.generic_name \notin DOMAIN BONE_ALIAS_MAPS[family]
               => ret = call.generic_name)
           /\ (call.generic_name = "jaw" =>
                 ret = CASE call.rig_type = "metahuman" -> "FACIAL_C_Jaw"
                         [] call.rig_type = "rigify" -> "jaw_master"
                         [] OTHER -> "jaw")

\* C7 witness: a family without a table resolves through the generic table
C7_Witness ==
    /\ done
    /\ call.op = "resolve_bone_name"
    /\ call.rig_type = "mixamo"
    /\ call.generic_name = "nose_L"
    /\ ret = "nose.L"

\* C8: get_operations_for_feature returns the empty list for a name that is
\* not in the catalog; for a catalog feature one operation per catalog
\* operation, in catalog order, with transform, axis and multiplier unchanged
\* and only the target replaced by resolve_bone_name(target, family); the
\* catalog itself is unchanged by the call.
C8_ResolvedOperations ==
    (done /\ call.op = "get_operations_for_feature") =>
        /\ featureMap = FACIAL_FEATURE_MAP
        /\ (call.feature_name \notin CatalogNames => ret = <<>>)
        /\ (call.feature_name \in CatalogNames =>
              LET operations == Lookup(FACIAL_FEATURE_MAP, call.feature_name).operations
              IN /\ Len(ret) = Len(operations)
                 /\ Len(ret) >= 1
                 /\ \A i \in DOMAIN ret :
                       /\ DOMAIN ret[i] = {"bone", "transform", "axis", "multiplier"}
                       /\ ret[i].transform = operations[i].transform
                       /\ ret[i].axis = operations[i].axis
                       /\ ret[i].multiplier = operations[i].multiplier
                       /\ ret[i].bone = resolve_bone_name(operations[i].bone, call.rig_type))

\* C8 witness: a feature whose targets all change under the metahuman table
C8_Witness ==
    /\ done
    /\ call.op = "get_operations_for_feature"
    /\ call.feature_name = "nose_width"
    /\ call.rig_type = "metahuman"
    /\ Len(ret) = 4
    /\ ret[1].bone = "FACIAL_L_Nostril"
    /\ ret[4] = [bone |-> "FACIAL_R_NostrilThickness1", transform |-> "location",
                 axis |-> "X", multiplier |-> -4]

----------------------------------------------------------------------------
(* semantic_layer/validators.py and mcp_server/tools/face_tools.py *)

\* A text is a sequence of one-character strings.  The spelling of each
\* catalog key:
NameChars ==
  [ nose_width           |-> << "n", "o", "s", "e", "_", "w", "i", "d", "t", "h" >>,
    nose_length          |-> << "n", "o", "s", "e", "_", "l", "e", "n", "g", "t", "h" >>,
    nose_tip_height      |-> << "n", "o", "s", "e", "_", "t", "i", "p", "_", "h", "e", "i", "g", "h", "t" >>,
    nose_bridge_width    |-> << "n", "o", "s", "e", "_", "b", "r", "i", "d", "g", "e", "_", "w", "i", "d", "t", "h" >>,
    nose_bridge_height   |-> << "n", "o", "s", "e", "_", "b", "r", "i", "d", "g", "e", "_", "h", "e", "i", "g", "h", "t" >>,
    jaw_width            |-> << "j", "a", "w", "_", "w", "i", "d", "t", "h" >>,
    jaw_height           |-> << "j", "a", "w", "_", "h", "e", "i", "g", "h", "t" >>,
    jaw_angle            |-> << "j", "a", "w", "_", "a", "n", "g", "l", "e" >>,
    chin_prominence      |-> << "c", "h", "i", "n", "_", "p", "r", "o", "m", "i", "n", "e", "n", "c", "e" >>,
    chin_width           |-> << "c", "h", "i", "n", "_", "w", "i", "d", "t", "h" >>,
    chin_height          |-> << "c", "h", "i", "n", "_", "h", "e", "i", "g", "h", "t" >>,
    eye_size             |-> << "e", "y", "e", "_", "s", "i", "z", "e" >>,
    eye_spacing          |-> << "e", "y", "e", "_", "s", "p", "a", "c", "i", "n", "g" >>,
    eye_tilt             |-> << "e", "y", "e", "_", "t", "i", "l", "t" >>,
    eye_depth            |-> << "e", "y", "e", "_", "d", "e", "p", "t", "h" >>,
    brow_height          |-> << "b", "r", "o", "w", "_", "h", "e", "i", "g", "h", "t" >>,
    brow_arch            |-> << "b", "r", "o", "w", "_", "a", "r", "c", "h" >>,
    brow_spacing         |-> << "b", "r", "o", "w", "_", "s", "p", "a", "c", "i", "n", "g" >>,
    lip_fullness_upper   |-> << "l", "i", "p", "_", "f", "u", "l", "l", "n", "e", "s", "s", "_", "u", "p", "p", "e", "r" >>,
    lip_fullness_lower   |-> << "l", "i", "p", "_", "f", "u", "l", "l", "n", "e", "s", "s", "_", "l", "o", "w", "e", "r" >>,
    lip_width            |-> << "l", "i", "p", "_", "w", "i", "d", "t", "h" >>,
    lip_height           |-> << "l", "i", "p", "_", "h", "e", "i", "g", "h", "t" >>,
    cheekbone_height     |-> << "c", "h", "e", "e", "k", "b", "o", "n", "e", "_", "h", "e", "i", "g", "h", "t" >>,
    cheekbone_prominence |-> << "c", "h", "e", "e", "k", "b", "o", "n", "e", "_", "p", "r", "o", "m", "i", "n", "e", "n", "c", "e" >>,
    cheek_fullness       |-> << "c", "h", "e", "e", "k", "_", "f", "u", "l", "l", "n", "e", "s", "s" >>,
    forehead_height      |-> << "f", "o", "r", "e", "h", "e", "a", "d", "_", "h", "e", "i", "g", "h", "t" >>,
    forehead_width       |-> << "f", "o", "r", "e", "h", "e", "a", "d", "_", "w", "i", "d", "t", "h" >>,
    forehead_slope       |-> << "f", "o", "r", "e", "h", "e", "a", "d", "_", "s", "l", "o", "p", "e" >>,
    ear_size             |-> << "e", "a", "r", "_", "s", "i", "z", "e" >>,
    ear_angle            |-> << "e", "a", "r", "_", "a", "n", "g", "l", "e" >>,
    face_width           |-> << "f", "a", "c", "e", "_", "w", "i", "d", "t", "h" >>,
    face_length          |-> << "f", "a", "c", "e", "_", "l", "e", "n", "g", "t", "h" >> ]

\* str.lower() on the letters A-Z
LowerOf ==
  [ A |-> "a", B |-> "b", C |-> "c", D |-> "d", E |-> "e", F |-> "f", G |-> "g", H |-> "h", I |-> "i", J |-> "j", K |-> "k", L |-> "l", M |-> "m", N |-> "n", O |-> "o", P |-> "p", Q |-> "q", R |-> "r", S |-> "s", T |-> "t", U |-> "u", V |-> "v", W |-> "w", X |-> "x", Y |-> "y", Z |-> "z" ]

Lower(text) ==
    [i \in DOMAIN text |-> IF text[i] \in DOMAIN LowerOf THEN LowerOf[text[i]] ELSE text[i]]

Whitespace == {" ", "\t", "\n", "\r"}

\* str.strip(): drop the whitespace at both ends
Strip(text) ==
    LET inner == { i \in DOMAIN text : text[i] \notin Whitespace }
    IN IF inner = {} THEN <<>>
       ELSE SubSeq(text,
                   CHOOSE i \in inner : \A j \in inner : i <= j,
                   CHOOSE i \in inner : \A j \in inner : j <= i)

\* str.replace(old, new) for single characters
Replace(text, old, new) ==
    [i \in DOMAIN text |-> IF text[i] = old THEN new ELSE text[i]]

\* name.lower().strip().replace(" ", "_").replace("-", "_")
Normalize(name) == Replace(Replace(Strip(Lower(name)), " ", "_"), "-", "_")

\* a validator that matches the raw text, without normalising it
validate_feature_name_raw(catalog, name) ==
    IF \E k \in Keys(catalog) : NameChars[k] = name
    THEN [valid |-> TRUE, name |-> CHOOSE k \in Keys(catalog) : NameChars[k] = name]
    ELSE [valid |-> FALSE, name |-> name]

\* validate_feature_name: valid with the catalog key the normalised text
\* spells, or invalid (the suggestion texts of the error are left out)
validate_feature_name(catalog, name) ==
    LET normalized == Normalize(name)
    IN IF \E k \in Keys(catalog) : NameChars[k] = normalized
       THEN [valid |-> TRUE,
             name |-> CHOOSE k \in Keys(catalog) : NameChars[k] = normalized]
       ELSE [valid |-> FALSE, name |-> normalized]

\* clamp_value without the lower bound
clamp_value_upper_only(value) ==
    LET clamped == Min(1000, value)
    IN <<clamped, clamped # value>>

\* clamp_value(value) with the default bounds -1.0 and 1.0:
\* (max(min_val, min(max_val, value)), clamped != value), in thousandths
clamp_value(value) ==
    LET clamped == Max(-1000, Min(1000, value))
    IN <<clamped, clamped # value>>

\* handle_list_bones as seen by the caller: the bone names, or an error when
\* the scene holds no armature
handle_list_bones(scene) ==
    IF scene = <<>> THEN [status |-> "error", error |-> "No armature found."]
    ELSE [status |-> "success", bones |-> scene[1]]

\* a batch handler that gives up when a target is missing
handle_batch_move_bones_strict(scene, operations) ==
    IF scene = <<>> THEN [status |-> "error", error |-> "No armature found."]
    ELSE IF \E i \in DOMAIN operations : operations[i].bone_name \notin SetOf(scene[1])
    THEN [status |-> "error", error |-> "Bone not found"]
    ELSE [status |-> "success", applied |-> Len(operations), skipped |-> <<>>]

\* handle_batch_move_bones as seen by the caller: how many operations found
\* their bone, and the targets of the others in batch order
handle_batch_move_bones(scene, operations) ==
    IF scene = <<>> THEN [status |-> "error", error |-> "No armature found."]
    ELSE LET found(op) == op.bone_name \in SetOf(scene[1])
             missing == SelectSeq(operations, LAMBDA op : ~ found(op))
         IN [status |-> "success",
             applied |-> Len(operations) - Len(missing),
             skipped |-> [i \in DOMAIN missing |-> missing[i].bone_name]]

\* amounts are in millionths: a value in thousandths times a multiplier in
\* thousandths
Million == 1000000

\* a pose bone at rest: location in millionths, rotation_euler in fractions
\* of pi, scale as fractions
RestTransform ==
    [location |-> <<0, 0, 0>>,
     rotation_euler |-> <<RatZero, RatZero, RatZero>>,
     scale |-> <<RatOne, RatOne, RatOne>>]

\* the pose bones of the scene's armature, all at rest
RestPose(scene) ==
    IF scene = <<>> THEN <<>> ELSE [b \in SetOf(scene[1]) |-> RestTransform]

\* _axis_index(axis.upper()): X=0, Y=1, Z=2, anything else 0 (here counted from 1)
axis_index(axis) ==
    IF axis \in {"Y", "y"} THEN 2 ELSE IF axis \in {"Z", "z"} THEN 3 ELSE 1

\* math.radians of an amount of degrees in millionths, as a fraction of pi
radians(amount) == Frac(amount, 180 * Million)

\* math.degrees of a fraction of pi, in degrees
degrees(r) == Frac(r[1] * 180, r[2])

\* one pass of the loop of handle_batch_move_bones: a missing bone is skipped,
\* a found one gets location += amount, scale *= (1.0 + amount) or
\* rotation_euler += radians(amount) on the axis
apply_op(bones, op) ==
    IF op.bone_name \notin DOMAIN bones THEN bones
    ELSE LET idx == axis_index(op.axis)
             bone == bones[op.bone_name]
         IN IF op.transform = "location"
            THEN [bones EXCEPT ![op.bone_name].location[idx] = bone.location[idx] + op.amount]
            ELSE IF op.transform = "scale"
            THEN [bones EXCEPT ![op.bone_name].scale[idx] =
                     RatMul(bone.scale[idx], Frac(Million + op.amount, Million))]
            ELSE IF op.transform = "rotation"
            THEN [bones EXCEPT ![op.bone_name].rotation_euler[idx] =
                     RatAdd(bone.rotation_euler[idx], radians(op.amount))]
            ELSE bones

RECURSIVE pose_after_batch(_, _)
\* the pose bones after handle_batch_move_bones has run over the operations
pose_after_batch(bones, operations) ==
    IF operations = <<>> THEN bones
    ELSE pose_after_batch(apply_op(bones, Head(operations)), Tail(operations))

\* handle_get_bone_transform: the transform of a pose bone as the client
\* reads it (rotation in degrees)
handle_get_bone_transform(scene, bones, bone_name) ==
    IF scene = <<>> THEN [status |-> "error", error |-> "No armature found."]
    ELSE IF bone_name \notin DOMAIN bones
    THEN [status |-> "error", error |-> "Bone not found"]
    ELSE [status |-> "success",
          bone_name |-> bone_name,
          location |-> bones[bone_name].location,
          rotation_euler |-> [i \in 1..3 |-> degrees(bones[bone_name].rotation_euler[i])],
          scale |-> bones[bone_name].scale]

\* what send_command returns when the connection fails (refused, reset, timed out)
ConnectionError == [status |-> "error", error |-> "connection"]

\* the batch built by edit_facial_feature: amount = value * multiplier, in
\* millionths (value and multiplier are both in thousandths)
batch_ops(operations, value) ==
    [i \in DOMAIN operations |->
        [bone_name |-> operations[i].bone,
         transform |-> operations[i].transform,
         axis |-> operations[i].axis,
         amount |-> value * operations[i].multiplier]]

\* conn.send_command(command, params) as edit_facial_feature sees it: the
\* handler's reply when the link is up, the error dict when it is not
send_command(command, params, scene, link) ==
    IF link # "up" THEN ConnectionError
    ELSE IF command = "list_bones" THEN handle_list_bones(scene)
    ELSE handle_batch_move_bones(scene, params.operations)

\* the effect of a tool call: the commands handed to send_command and the
\* value returned to the MCP client
Outcome(commands, value) == [sent |-> commands, ret |-> value]

\* edit_facial_feature(feature, value) against a scene; links[1] and links[2]
\* say whether the connection works for the first and the second command
edit_facial_feature(catalog, scene, feature, value, links) ==
    LET validation == validate_feature_name(catalog, feature)
        clamped == clamp_value(value)
        list_bones == [command |-> "list_bones", params |-> <<>>]
        bones_result == send_command("list_bones", <<>>, scene, links[1])
    IN IF ~ validation.valid
       THEN Outcome(<<>>, [kind |-> "error", error |-> "unknown feature"])
       ELSE IF bones_result.status # "success"
       THEN Outcome(<<list_bones>>, [kind |-> "error", error |-> bones_result.error])
       ELSE LET rig_type == detect_rig_type(bones_result.bones)
                operations == get_operations_for_feature(catalog, validation.name, rig_type)
                batch == [command |-> "batch_move_bones",
                          params |-> [operations |-> batch_ops(operations, clamped[1])]]
                result == send_command("batch_move_bones", batch.params, scene, links[2])
            IN IF operations = <<>>
               THEN Outcome(<<list_bones>>, [kind |-> "error", error |-> "no operations"])
               ELSE Outcome(<<list_bones, batch>>,
                            IF result.status = "success"
                            THEN [kind |-> "applied",
                                  feature_name |-> validation.name,
                                  value |-> clamped[1],
                                  applied |-> result.applied,
                                  was_clamped |-> clamped[2],
                                  skipped |-> result.skipped,
                                  rig_type |-> rig_type]
                            ELSE [kind |-> "error", error |-> result.error])

----------------------------------------------------------------------------
(* edit_facial_feature applied to a drawn call and scene *)

RECURSIVE SeqOf(_)
\* the members of a finite set in some fixed order
SeqOf(S) ==
    IF S = {} THEN <<>>
    ELSE LET x == CHOOSE x \in S : TRUE IN <<x>> \o SeqOf(S \ {x})

RigBones(family) ==
    { BONE_ALIAS_MAPS[family][a] : a \in DOMAIN BONE_ALIAS_MAPS[family] }

\* scenes: no armature, or an armature with these pose bones
Scenes ==
    {<<>>} \cup
    { <<SeqOf(B)>> : B \in { RigBones("metahuman") \cup metahuman_markers,
                             RigBones("rigify"),
                             RigBones("generic"),
                             {"Bone", "Bone.001"},
                             {"FACIAL_C_Jaw", "FACIAL_L_Eye", "FACIAL_L_Nostril"},
                             metahuman_markers \cup rigify_markers } }

\* str.upper() on the letters a-z
UpperOf ==
  [ a |-> "A", b |-> "B", c |-> "C", d |-> "D", e |-> "E", f |-> "F", g |-> "G", h |-> "H", i |-> "I", j |-> "J", k |-> "K", l |-> "L", m |-> "M", n |-> "N", o |-> "O", p |-> "P", q |-> "Q", r |-> "R", s |-> "S", t |-> "T", u |-> "U", v |-> "V", w |-> "W", x |-> "X", y |-> "Y", z |-> "Z" ]

Upper(text) ==
    [i \in DOMAIN text |-> IF text[i] \in DOMAIN UpperOf THEN UpperOf[text[i]] ELSE text[i]]

\* spellings of catalog key k that the validator is meant to accept
ValidSpellings(k) ==
    { NameChars[k],
      Upper(NameChars[k]),
      <<Upper(NameChars[k])[1]>> \o Tail(NameChars[k]),
      Replace(NameChars[k], "_", " "),
      Replace(NameChars[k], "_", "-"),
      <<" ">> \o NameChars[k] \o <<" ", "\n">> }

\* texts that spell no catalog key
InvalidSpellings(k) ==
    { SubSeq(NameChars[k], 1, Len(NameChars[k]) - 1),
      Replace(NameChars[k], "_", "\t"),
      NameChars[k] \o <<"_">>,
      <<>> }

FeatureTexts ==
    UNION { ValidSpellings(k) \cup InvalidSpellings(k) : k \in CatalogNames }

\* thousandths: -2.0, -1.0, 0.0, 0.5, 1.5
EditValues == {-2000, -1000, 0, 500, 1500}

Links == {<<"up", "up">>, <<"up", "down">>, <<"down", "up">>}

FaceToolCalls ==
    [op : {"edit_facial_feature"}, feature : FeatureTexts, value : EditValues]

InitFaceTools ==
    /\ call \in FaceToolCalls
    /\ ret = <<>>
    /\ done = FALSE
    /\ featureMap = FACIAL_FEATURE_MAP
    /\ armature \in Scenes
    /\ sent = <<>>
    /\ pose = RestPose(armature)
    /\ Offline

EditFacialFeature ==
    /\ call.op = "edit_facial_feature"
    /\ \E links \in Links :
          LET outcome == edit_facial_feature(featureMap, armature, call.feature,
                                             call.value, links)
          IN /\ Return(outcome.ret)
             /\ sent' = sent \o outcome.sent
             /\ pose' = IF Len(outcome.sent) = 2 /\ links[2] = "up"
                        THEN pose_after_batch(pose, outcome.sent[2].params.operations)
                        ELSE pose
    /\ UNCHANGED <<featureMap, armature, linkvars, bridgevars>>

NextFaceTools == EditFacialFeature

SpecFaceTools == InitFaceTools /\ [][NextFaceTools]_vars

----------------------------------------------------------------------------
(* Claims about edit_facial_feature, checked under SpecFaceTools *)

Edited == done /\ call.op = "edit_facial_feature"

\* the catalog key a feature text stands for, <<>> when it stands for none
KeyOf(text) ==
    LET keys == { k \in CatalogNames :
                     /\ Len(text) \in {Len(NameChars[k]), Len(NameChars[k]) + 3}
                     /\ text \in ValidSpellings(k) }
    IN IF keys = {} THEN <<>> ELSE <<CHOOSE k \in keys : TRUE>>

\* value clamped to [-1.0, 1.0], in thousandths
ClampedEdit(v) == IF v > 1000 THEN 1000 ELSE IF v < -1000 THEN -1000 ELSE v

\* the batch the claim describes: one item per catalog operation of key k, in
\* catalog order, the target resolved for the rig detected from the scene's
\* bones, amount = clamp(v, -1, 1) * multiplier
ClaimedBatch(k, v, bones) ==
    LET operations == Lookup(FACIAL_FEATURE_MAP, k).operations
    IN [i \in DOMAIN operations |->
           [bone_name |-> resolve_bone_name(operations[i].bone, detect_rig_type(bones)),
            transform |-> operations[i].transform,
            axis |-> operations[i].axis,
            amount |-> ClampedEdit(v) * operations[i].multiplier]]

\* C9 (as claimed): for a valid feature name edit_facial_feature sends
\* list_bones and then exactly one batch_move_bones with the claimed batch;
\* for an invalid name it returns an error without sending any command.
C9_AlwaysSendsBatch ==
    Edited =>
        LET key == KeyOf(call.feature)
        IN IF key # <<>>
           THEN /\ Len(sent) = 2
                /\ sent[1].command = "list_bones"
                /\ sent[2].command = "batch_move_bones"
                /\ armature # <<>>
                /\ sent[2].params.operations
                     = ClaimedBatch(key[1], call.value, armature[1])
           ELSE ret.kind = "error" /\ sent = <<>>

\* C9 (amended): for a valid feature name edit_facial_feature sends list_bones
\* first; when that reply has status success it then sends exactly one
\* batch_move_bones with the claimed batch, and when it has not (no armature,
\* connection failure) it returns an error and sends nothing more; for an
\* invalid name it returns an error without sending any command.
C9_SendsBatchAfterBonesListed ==
    Edited =>
        LET key == KeyOf(call.feature)
        IN IF key # <<>>
           THEN /\ Len(sent) \in {1, 2}
                /\ sent[1] = [command |-> "list_bones", params |-> <<>>]
                /\ (Len(sent) = 1 =>
                      /\ ret.kind = "error"
                      /\ ret.error \in {"No armature found.", ConnectionError.error}
                      /\ (ret.error = "No armature found." => armature = <<>>))
                /\ (Len(sent) = 2 =>
                      /\ armature # <<>>
                      /\ sent[2].command = "batch_move_bones"
                      /\ sent[2].params.operations
                           = ClaimedBatch(key[1], call.value, armature[1]))
                /\ (armature = <<>> => Len(sent) = 1)
                /\ (ret.kind = "applied" =>
                      /\ Len(sent) = 2
                      /\ ret.feature_name = key[1]
                      /\ ret.value = ClampedEdit(call.value))
           ELSE ret.kind = "error" /\ sent = <<>>

\* C9 witness: a respelled name and an out-of-range value on a metahuman rig:
\* both commands sent, the batch resolved and clamped
C9_Witness ==
    /\ Edited
    /\ call.feature = Replace(Upper(NameChars["nose_width"]), "_", " ")
         \/ call.feature = Replace(NameChars["nose_width"], "_", " ")
    /\ call.value = -2000
    /\ ret.kind = "applied"
    /\ ret.was_clamped
    /\ ret.rig_type = "metahuman"
    /\ Len(sent) = 2
    /\ sent[2].params.operations[1] =
         [bone_name |-> "FACIAL_L_Nostril", transform |-> "location",
          axis |-> "X", amount |-> -5000]

----------------------------------------------------------------------------
(* semantic_layer/presets.py *)

\* the keys of an ordered dict as a list, in insertion order
KeyList(d) == [i \in DOMAIN d |-> d[i][1]]

\* list `a` followed by the entries of `b` that are not in `a`
AppendNew(a, b) == a \o SelectSeq(b, LAMBDA k : k \notin SetOf(a))

Rotate(list, n) == SubSeq(list, n + 1, Len(list)) \o SubSeq(list, 1, n)
Reverse(list) == [i \in DOMAIN list |-> list[Len(list) + 1 - i]]

\* Orders in which iterating the set of these keys may yield them.  A Python
\* set of strings iterates in hash order, which differs between processes;
\* the rotations of the list and of its reverse stand for these orders.
SetOrders(list) ==
    { Rotate(list, n) : n \in 0..(Len(list) - 1) }
    \cup { Rotate(Reverse(list), n) : n \in 0..(Len(list) - 1) }

\* get_preset(name): FACE_PRESETS.get(name), <<>> for None and <<features>>
\* for a stored preset (its description text is left out)
get_preset(name) ==
    IF name \in Keys(FACE_PRESETS) THEN <<Lookup(FACE_PRESETS, name)>> ELSE <<>>

\* a blend that only looks for the first preset and takes a missing second
\* preset as one with no features
blend_presets_first_only(preset_a_name, preset_b_name, k, all_keys) ==
    IF preset_a_name \notin Keys(FACE_PRESETS)
    THEN <<>>
    ELSE LET a == Lookup(FACE_PRESETS, preset_a_name)
             b == IF preset_b_name \in Keys(FACE_PRESETS)
                  THEN Lookup(FACE_PRESETS, preset_b_name) ELSE <<>>
         IN <<[i \in DOMAIN a |->
                 <<a[i][1], a[i][2] * (FactorSteps - k) + Get(b, a[i][1], 0) * k>>]>>

\* a blend with the two weights exchanged
blend_presets_swapped(preset_a_name, preset_b_name, k, all_keys) ==
    IF preset_a_name \notin Keys(FACE_PRESETS) \/ preset_b_name \notin Keys(FACE_PRESETS)
    THEN <<>>
    ELSE <<[i \in DOMAIN all_keys |->
              <<all_keys[i],
                Get(Lookup(FACE_PRESETS, preset_a_name), all_keys[i], 0) * k
                + Get(Lookup(FACE_PRESETS, preset_b_name), all_keys[i], 0)
                  * (FactorSteps - k)>>]>>

\* a blend over the keys of the first preset only
blend_presets_keys_of_a(preset_a_name, preset_b_name, k, all_keys) ==
    IF preset_a_name \notin Keys(FACE_PRESETS) \/ preset_b_name \notin Keys(FACE_PRESETS)
    THEN <<>>
    ELSE LET a == Lookup(FACE_PRESETS, preset_a_name)
         IN <<[i \in DOMAIN a |->
                 <<a[i][1],
                   a[i][2] * (FactorSteps - k)
                   + Get(Lookup(FACE_PRESETS, preset_b_name), a[i][1], 0) * k>>]>>

\* blend_presets(preset_a_name, preset_b_name, factor) with factor =
\* k / FactorSteps, iterating all_keys in the given order.  Returns <<>>
\* (None) or <<blended>>, the blended values in units of 1/(1000*FactorSteps):
\* val_a * (1 - factor) + val_b * factor = (val_a*(FactorSteps-k) + val_b*k) / FactorSteps
blend_presets(preset_a_name, preset_b_name, k, all_keys) ==
    IF preset_a_name \notin Keys(FACE_PRESETS) \/ preset_b_name \notin Keys(FACE_PRESETS)
    THEN <<>>
    ELSE LET a == Lookup(FACE_PRESETS, preset_a_name)
             b == Lookup(FACE_PRESETS, preset_b_name)
         IN <<[i \in DOMAIN all_keys |->
                 LET key == all_keys[i]
                     val_a == Get(a, key, 0)
                     val_b == Get(b, key, 0)
                 IN <<key, val_a * (FactorSteps - k) + val_b * k>>]>>

\* all_keys = set(a["features"].keys()) | set(b["features"].keys()), in the
\* orders its iteration may take (none when a preset is missing)
all_keys_orders(preset_a_name, preset_b_name) ==
    IF preset_a_name \notin Keys(FACE_PRESETS) \/ preset_b_name \notin Keys(FACE_PRESETS)
    THEN {<<>>}
    ELSE SetOrders(AppendNew(KeyList(Lookup(FACE_PRESETS, preset_a_name)),
                             KeyList(Lookup(FACE_PRESETS, preset_b_name))))

----------------------------------------------------------------------------
(* The preset store applied to a drawn call *)

PresetNames == Keys(FACE_PRESETS) \cup {"nonexistent"}

\* names asked of get_preset: stored ones, a respelled one, the empty one
GetPresetNames == PresetNames \cup {"Angular_Face", ""}

PresetCalls ==
    [op : {"blend_presets"}, preset_a_name : PresetNames,
     preset_b_name : PresetNames, factor : 0..FactorSteps]
    \cup [op : {"get_preset"}, name : GetPresetNames]

InitPresets == call \in PresetCalls /\ Idle

BlendPresets ==
    /\ call.op = "blend_presets"
    /\ \E all_keys \in all_keys_orders(call.preset_a_name, call.preset_b_name) :
          Return(blend_presets(call.preset_a_name, call.preset_b_name,
                               call.factor, all_keys))
    /\ UNCHANGED <<featureMap, armature, sent, pose, linkvars, bridgevars>>

GetPreset ==
    /\ call.op = "get_preset"
    /\ Return(get_preset(call.name))
    /\ UNCHANGED <<featureMap, armature, sent, pose, linkvars, bridgevars>>

NextPresets ==
    \/ BlendPresets
    \/ GetPreset

SpecPresets == InitPresets /\ [][NextPresets]_vars

----------------------------------------------------------------------------
(* Claims about the preset store, checked under SpecPresets *)

Blended == done /\ call.op = "blend_presets"

\* a preset's value for a key in thousandths, 0 when the key is absent
PresetValue(name, key) ==
    LET hits == { j \in DOMAIN Lookup(FACE_PRESETS, name) :
                     Lookup(FACE_PRESETS, name)[j][1] = key }
    IN IF hits = {} THEN 0
       ELSE Lookup(FACE_PRESETS, name)[CHOOSE j \in hits : TRUE][2]

\* C10: for two existing presets A and B and a factor f in [0,1] blend_presets
\* returns a map whose key set is exactly the union of A's and B's feature
\* keys and whose value per key is a*(1-f) + b*f with an absent key counted as
\* 0.0; f=0 reproduces A over the union, f=1 reproduces B, f=0.5 gives the
\* arithmetic mean, and every blended value stays in [-1,1].
\* (f = call.factor / FactorSteps; values in units of 1/(1000*FactorSteps).)
C10_BlendOverUnion ==
    (/\ Blended
     /\ call.preset_a_name \in Keys(FACE_PRESETS)
     /\ call.preset_b_name \in Keys(FACE_PRESETS)) =>
        /\ Len(ret) = 1
        /\ LET blended == ret[1]
               A == call.preset_a_name
               B == call.preset_b_name
               k == call.factor
           IN /\ Keys(blended) = Keys(Lookup(FACE_PRESETS, A))
                                   \cup Keys(Lookup(FACE_PRESETS, B))
              /\ Cardinality(Keys(blended)) = Len(blended)
              /\ \A i \in DOMAIN blended :
                    LET key == blended[i][1]
                        value == blended[i][2]
                        va == PresetValue(A, key)
                        vb == PresetValue(B, key)
                    IN /\ value = va * (FactorSteps - k) + vb * k
                       /\ (k = 0 => value = va * FactorSteps)
                       /\ (k = FactorSteps => value = vb * FactorSteps)
                       /\ (2 * k = FactorSteps => 2 * value = (va + vb) * FactorSteps)
                       /\ -1000 * FactorSteps <= value
                       /\ value <= 1000 * FactorSteps

\* C10 witness: angular_face and round_face at 0.5: jaw_width is the mean of
\* -0.3 and 0.4, chin_width (only in round_face) is half of 0.3, and
\* cheekbone_height (only in angular_face) is half of 0.3
C10_Witness ==
    /\ Blended
    /\ call.preset_a_name = "angular_face"
    /\ call.preset_b_name = "round_face"
    /\ 2 * call.factor = FactorSteps
    /\ Len(ret) = 1
    /\ Len(ret[1]) = 8
    /\ Lookup(ret[1], "jaw_width") * 2 = 100 * FactorSteps
    /\ Lookup(ret[1], "chin_width") * 2 = 300 * FactorSteps
    /\ Lookup(ret[1], "cheekbone_height") * 2 = 300 * FactorSteps

GotPreset == done /\ call.op = "get_preset"

\* C11: blend_presets returns the not-found outcome (None) if and only if at
\* least one of the two preset names is absent from the store, whichever
\* position the missing name is in, and get_preset returns None exactly for
\* names absent from the store (and the stored preset otherwise).
C11_NotFoundIffAbsent ==
    /\ Blended =>
          (ret = <<>> <=> (\/ call.preset_a_name \notin Keys(FACE_PRESETS)
                           \/ call.preset_b_name \notin Keys(FACE_PRESETS)))
    /\ GotPreset =>
          /\ ret = <<>> <=> call.name \notin Keys(FACE_PRESETS)
          /\ \A i \in DOMAIN FACE_PRESETS :
                FACE_PRESETS[i][1] = call.name => ret = <<FACE_PRESETS[i][2]>>

\* C11 witness: a blend whose second name only is absent returns None
C11_Witness ==
    /\ Blended
    /\ call.preset_a_name = "angular_face"
    /\ call.preset_b_name = "nonexistent"
    /\ ret = <<>>

----------------------------------------------------------------------------
(* semantic_layer/validators.py: the lexicon of the description parser *)

\* DIRECTION_MAP in insertion order: <<word, sign>>, sign 1 for 1.0 and -1 for -1.0
DIRECTION_MAP ==
  << <<<<"w", "i", "d", "e", "r">>, 1>>,
     <<<<"b", "i", "g", "g", "e", "r">>, 1>>,
     <<<<"l", "a", "r", "g", "e", "r">>, 1>>,
     <<<<"m", "o", "r", "e">>, 1>>,
     <<<<"h", "i", "g", "h", "e", "r">>, 1>>,
     <<<<"t", "a", "l", "l", "e", "r">>, 1>>,
     <<<<"f", "u", "l", "l", "e", "r">>, 1>>,
     <<<<"t", "h", "i", "c", "k", "e", "r">>, 1>>,
     <<<<"l", "o", "n", "g", "e", "r">>, 1>>,
     <<<<"s", "t", "r", "o", "n", "g", "e", "r">>, 1>>,
     <<<<"d", "e", "e", "p", "e", "r">>, 1>>,
     <<<<"p", "r", "o", "m", "i", "n", "e", "n", "t">>, 1>>,
     <<<<"p", "r", "o", "n", "o", "u", "n", "c", "e", "d">>, 1>>,
     <<<<"r", "a", "i", "s", "e", "d">>, 1>>,
     <<<<"i", "n", "c", "r", "e", "a", "s", "e", "d">>, 1>>,
     <<<<"u", "p">>, 1>>,
     <<<<"o", "u", "t">>, 1>>,
     <<<<"f", "o", "r", "w", "a", "r", "d">>, 1>>,
     <<<<"r", "o", "u", "n", "d", "e", "r">>, 1>>,
     <<<<"p", "l", "u", "m", "p", "e", "r">>, 1>>,
     <<<<"n", "a", "r", "r", "o", "w", "e", "r">>, -1>>,
     <<<<"s", "m", "a", "l", "l", "e", "r">>, -1>>,
     <<<<"l", "e", "s", "s">>, -1>>,
     <<<<"l", "o", "w", "e", "r">>, -1>>,
     <<<<"s", "h", "o", "r", "t", "e", "r">>, -1>>,
     <<<<"t", "h", "i", "n", "n", "e", "r">>, -1>>,
     <<<<"f", "l", "a", "t", "t", "e", "r">>, -1>>,
     <<<<"s", "h", "a", "l", "l", "o", "w", "e", "r">>, -1>>,
     <<<<"r", "e", "d", "u", "c", "e", "d">>, -1>>,
     <<<<"r", "e", "c", "e", "d", "i", "n", "g">>, -1>>,
     <<<<"d", "e", "c", "r", "e", "a", "s", "e", "d">>, -1>>,
     <<<<"d", "o", "w", "n">>, -1>>,
     <<<<"i", "n">>, -1>>,
     <<<<"b", "a", "c", "k">>, -1>>,
     <<<<"s", "l", "i", "m", "m", "e", "r">>, -1>> >>

\* a lexicon whose entry for "lips" names a feature the catalog does not have
feature_keywords_stale ==
  << <<<<"n", "o", "s", "e", " ", "w", "i", "d", "t", "h">>, "nose_width">>,
     <<<<"n", "o", "s", "e">>, "nose_width">>,
     <<<<"n", "o", "s", "t", "r", "i", "l">>, "nose_width">>,
     <<<<"n", "o", "s", "e", " ", "l", "e", "n", "g", "t", "h">>, "nose_length">>,
     <<<<"n", "o", "s", "e", " ", "t", "i", "p">>, "nose_tip_height">>,
     <<<<"n", "o", "s", "e", " ", "b", "r", "i", "d", "g", "e">>, "nose_bridge_height">>,
     <<<<"j", "a", "w", "l", "i", "n", "e">>, "jaw_width">>,
     <<<<"j", "a", "w", " ", "w", "i", "d", "t", "h">>, "jaw_width">>,
     <<<<"j", "a", "w">>, "jaw_width">>,
     <<<<"j", "a", "w", " ", "a", "n", "g", "l", "e">>, "jaw_angle">>,
     <<<<"c", "h", "i", "n">>, "chin_prominence">>,
     <<<<"c", "h", "i", "n", " ", "w", "i", "d", "t", "h">>, "chin_width">>,
     <<<<"e", "y", "e", " ", "s", "i", "z", "e">>, "eye_size">>,
     <<<<"e", "y", "e", "s">>, "eye_size">>,
     <<<<"e", "y", "e", " ", "s", "p", "a", "c", "i", "n", "g">>, "eye_spacing">>,
     <<<<"e", "y", "e", " ", "t", "i", "l", "t">>, "eye_tilt">>,
     <<<<"e", "y", "e", " ", "d", "e", "p", "t", "h">>, "eye_depth">>,
     <<<<"b", "r", "o", "w", " ", "h", "e", "i", "g", "h", "t">>, "brow_height">>,
     <<<<"b", "r", "o", "w">>, "brow_height">>,
     <<<<"e", "y", "e", "b", "r", "o", "w">>, "brow_height">>,
     <<<<"b", "r", "o", "w", " ", "a", "r", "c", "h">>, "brow_arch">>,
     <<<<"u", "p", "p", "e", "r", " ", "l", "i", "p">>, "lip_fullness_upper">>,
     <<<<"l", "o", "w", "e", "r", " ", "l", "i", "p">>, "lip_fullness_lower">>,
     <<<<"l", "i", "p">>, "lip_fullness_upper">>,
     <<<<"l", "i", "p", "s">>, "lip_fullness">>,
     <<<<"m", "o", "u", "t", "h", " ", "w", "i", "d", "t", "h">>, "lip_width">>,
     <<<<"m", "o", "u", "t", "h">>, "lip_width">>,
     <<<<"c", "h", "e", "e", "k", "b", "o", "n", "e">>, "cheekbone_prominence">>,
     <<<<"c", "h", "e", "e", "k">>, "cheek_fullness">>,
     <<<<"f", "o", "r", "e", "h", "e", "a", "d", " ", "h", "e", "i", "g", "h", "t">>, "forehead_height">>,
     <<<<"f", "o", "r", "e", "h", "e", "a", "d", " ", "w", "i", "d", "t", "h">>, "forehead_width">>,
     <<<<"f", "o", "r", "e", "h", "e", "a", "d">>, "forehead_height">>,
     <<<<"e", "a", "r", " ", "s", "i", "z", "e">>, "ear_size">>,
     <<<<"e", "a", "r">>, "ear_size">>,
     <<<<"f", "a", "c", "e", " ", "w", "i", "d", "t", "h">>, "face_width">>,
     <<<<"f", "a", "c", "e", " ", "l", "e", "n", "g", "t", "h">>, "face_length">>,
     <<<<"f", "a", "c", "e">>, "face_width">> >>

\* the dict built by _build_feature_keyword_map, in insertion order:
\* <<keyword phrase, feature name>>
feature_keywords ==
  << <<<<"n", "o", "s", "e", " ", "w", "i", "d", "t", "h">>, "nose_width">>,
     <<<<"n", "o", "s", "e">>, "nose_width">>,
     <<<<"n", "o", "s", "t", "r", "i", "l">>, "nose_width">>,
     <<<<"n", "o", "s", "e", " ", "l", "e", "n", "g", "t", "h">>, "nose_length">>,
     <<<<"n", "o", "s", "e", " ", "t", "i", "p">>, "nose_tip_height">>,
     <<<<"n", "o", "s", "e", " ", "b", "r", "i", "d", "g", "e">>, "nose_bridge_height">>,
     <<<<"j", "a", "w", "l", "i", "n", "e">>, "jaw_width">>,
     <<<<"j", "a", "w", " ", "w", "i", "d", "t", "h">>, "jaw_width">>,
     <<<<"j", "a", "w">>, "jaw_width">>,
     <<<<"j", "a", "w", " ", "a", "n", "g", "l", "e">>, "jaw_angle">>,
     <<<<"c", "h", "i", "n">>, "chin_prominence">>,
     <<<<"c", "h", "i", "n", " ", "w", "i", "d", "t", "h">>, "chin_width">>,
     <<<<"e", "y", "e", " ", "s", "i", "z", "e">>, "eye_size">>,
     <<<<"e", "y", "e", "s">>, "eye_size">>,
     <<<<"e", "y", "e", " ", "s", "p", "a", "c", "i", "n", "g">>, "eye_spacing">>,
     <<<<"e", "y", "e", " ", "t", "i", "l", "t">>, "eye_tilt">>,
     <<<<"e", "y", "e", " ", "d", "e", "p", "t", "h">>, "eye_depth">>,
     <<<<"b", "r", "o", "w", " ", "h", "e", "i", "g", "h", "t">>, "brow_height">>,
     <<<<"b", "r", "o", "w">>, "brow_height">>,
     <<<<"e", "y", "e", "b", "r", "o", "w">>, "brow_height">>,
     <<<<"b", "r", "o", "w", " ", "a", "r", "c", "h">>, "brow_arch">>,
     <<<<"u", "p", "p", "e", "r", " ", "l", "i", "p">>, "lip_fullness_upper">>,
     <<<<"l", "o", "w", "e", "r", " ", "l", "i", "p">>, "lip_fullness_lower">>,
     <<<<"l", "i", "p">>, "lip_fullness_upper">>,
     <<<<"l", "i", "p", "s">>, "lip_fullness_upper">>,
     <<<<"m", "o", "u", "t", "h", " ", "w", "i", "d", "t", "h">>, "lip_width">>,
     <<<<"m", "o", "u", "t", "h">>, "lip_width">>,
     <<<<"c", "h", "e", "e", "k", "b", "o", "n", "e">>, "cheekbone_prominence">>,
     <<<<"c", "h", "e", "e", "k">>, "cheek_fullness">>,
     <<<<"f", "o", "r", "e", "h", "e", "a", "d", " ", "h", "e", "i", "g", "h", "t">>, "forehead_height">>,
     <<<<"f", "o", "r", "e", "h", "e", "a", "d", " ", "w", "i", "d", "t", "h">>, "forehead_width">>,
     <<<<"f", "o", "r", "e", "h", "e", "a", "d">>, "forehead_height">>,
     <<<<"e", "a", "r", " ", "s", "i", "z", "e">>, "ear_size">>,
     <<<<"e", "a", "r">>, "ear_size">>,
     <<<<"f", "a", "c", "e", " ", "w", "i", "d", "t", "h">>, "face_width">>,
     <<<<"f", "a", "c", "e", " ", "l", "e", "n", "g", "t", "h">>, "face_length">>,
     <<<<"f", "a", "c", "e">>, "face_width">> >>

\* the filler words removed from the text, in the order of the loop
FillerWords ==
  << <<"m", "a", "k", "e">>,
     <<"t", "h", "e">>,
     <<"a">>,
     <<"a", "n">>,
     <<"w", "i", "t", "h">>,
     <<"a", "n", "d">>,
     <<"p", "l", "e", "a", "s", "e">>,
     <<"g", "i", "v", "e">>,
     <<"m", "e">>,
     <<"s", "e", "t">>,
     <<"a", "d", "j", "u", "s", "t">> >>

StrongWords ==
  << <<"v", "e", "r", "y">>,
     <<"m", "u", "c", "h">>,
     <<"e", "x", "t", "r", "e", "m", "e", "l", "y">>,
     <<"s", "i", "g", "n", "i", "f", "i", "c", "a", "n", "t", "l", "y">> >>

MildWords ==
  << <<"s", "l", "i", "g", "h", "t", "l", "y">>,
     <<"a", " ", "b", "i", "t">>,
     <<"a", " ", "l", "i", "t", "t", "l", "e">>,
     <<"s", "u", "b", "t", "l", "y">> >>

\* segments of the descriptions given to the parser
Phrases ==
  { <<"w", "i", "d", "e", "r", " ", "n", "o", "s", "e">>,
    <<"s", "t", "r", "o", "n", "g", "e", "r", " ", "j", "a", "w", "l", "i", "n", "e">>,
    <<"b", "i", "g", "g", "e", "r", " ", "e", "y", "e", "s">>,
    <<"n", "o", "s", "e", " ", "b", "r", "i", "d", "g", "e", " ", "h", "i", "g", "h", "e", "r">>,
    <<"n", "o", "s", "e">>,
    <<"w", "i", "d", "e", "r">>,
    <<"h", "e", "l", "l", "o">>,
    <<"s", "l", "i", "g", "h", "t", "l", "y", " ", "w", "i", "d", "e", "r", " ", "n", "o", "s", "e">>,
    <<"m", "u", "c", "h", " ", "b", "i", "g", "g", "e", "r", " ", "e", "y", "e", "s">>,
    <<"a", " ", "b", "i", "t", " ", "w", "i", "d", "e", "r", " ", "n", "o", "s", "e">>,
    <<"n", "o", "s", "e", " ", "a", " ", "b", "i", "t", " ", "w", "i", "d", "e", "r">>,
    <<"M", "a", "k", "e", " ", "t", "h", "e", " ", "n", "o", "s", "e", " ", "n", "a", "r", "r", "o", "w", "e", "r">>,
    <<"t", "h", "e", " ", "l", "i", "p", "s", " ", "f", "u", "l", "l", "e", "r">>,
    <<"n", "a", "r", "r", "o", "w", "e", "r", " ", "m", "o", "u", "t", "h">>,
    <<"t", "h", "i", "n", "n", "e", "r", " ", "u", "p", "p", "e", "r", " ", "l", "i", "p">>,
    <<>> }

\* what stands between two segments
Separators ==
  { <<",", " ">>,
    <<";">>,
    <<" ", "a", "n", "d", " ">>,
    <<",", "a", "n", "d", " ">> }

----------------------------------------------------------------------------
(* semantic_layer/validators.py: parse_natural_description *)

\* `word in part` for texts: word occurs as a contiguous run of characters
Contains(part, word) ==
    \E i \in 1..(Len(part) - Len(word) + 1) :
        \A j \in 1..Len(word) : part[i + j - 1] = word[j]

\* index of the first occurrence of word in text at or after position from,
\* 0 when there is none
Find(text, word, from) ==
    LET hits == { i \in from..(Len(text) - Len(word) + 1) :
                     \A j \in 1..Len(word) : text[i + j - 1] = word[j] }
    IN IF hits = {} THEN 0 ELSE CHOOSE i \in hits : \A h \in hits : i <= h

RECURSIVE ReplaceAll(_, _, _)
\* str.replace(old, new): the occurrences of old are found left to right and
\* do not overlap
ReplaceAll(text, old, new) ==
    LET i == Find(text, old, 1)
    IN IF i = 0 THEN text
       ELSE SubSeq(text, 1, i - 1) \o new
            \o ReplaceAll(SubSeq(text, i + Len(old), Len(text)), old, new)

RECURSIVE remove_fillers(_, _)
\* for word in [...]: text = text.replace(f" {word} ", " "), from the n-th word on
remove_fillers(text, n) ==
    IF n > Len(FillerWords) THEN text
    ELSE remove_fillers(ReplaceAll(text, <<" ">> \o FillerWords[n] \o <<" ">>, <<" ">>),
                        n + 1)

\* the characters the regular expression class \w matches in a lowered text
WordChars ==
    { LowerOf[c] : c \in DOMAIN LowerOf } \cup DOMAIN LowerOf
    \cup {"0", "1", "2", "3", "4", "5", "6", "7", "8", "9", "_"}

\* a splitter that knows commas only
SeparatorAt_comma_only(text, i) == IF text[i] = "," THEN 1 ELSE 0

\* length of the match of [,;]|\band\b at position i of text, 0 for no match
SeparatorAt(text, i) ==
    IF text[i] \in {",", ";"} THEN 1
    ELSE IF /\ i + 2 <= Len(text)
            /\ text[i] = "a" /\ text[i + 1] = "n" /\ text[i + 2] = "d"
            /\ (i = 1 \/ text[i - 1] \notin WordChars)
            /\ (i + 3 > Len(text) \/ text[i + 3] \notin WordChars)
    THEN 3
    ELSE 0

RECURSIVE split_from(_, _, _)
\* re.split(r'[,;]|\band\b', text): the part that starts at `start`, scanned
\* up to position i, and the parts after it
split_from(text, start, i) ==
    IF i > Len(text) THEN <<SubSeq(text, start, Len(text))>>
    ELSE IF SeparatorAt(text, i) > 0
    THEN <<SubSeq(text, start, i - 1)>>
         \o split_from(text, i + SeparatorAt(text, i), i + SeparatorAt(text, i))
    ELSE split_from(text, start, i + 1)

re_split(text) == split_from(text, 1, 1)

\* the first DIRECTION_MAP entry whose word occurs in part (the loop breaks
\* at the first hit): <<direction, direction_word>>, <<0, "">> without a hit
find_direction(part) ==
    LET hits == { i \in DOMAIN DIRECTION_MAP : Contains(part, DIRECTION_MAP[i][1]) }
    IN IF hits = {} THEN <<0, <<>>>>
       ELSE LET first == CHOOSE i \in hits : \A h \in hits : i <= h
            IN <<DIRECTION_MAP[first][2], DIRECTION_MAP[first][1]>>

\* a matcher that keeps the first keyword found, whatever its length
match_loop_first(part, n, best_score, matched_feature) ==
    LET hits == { i \in DOMAIN feature_keywords : Contains(part, feature_keywords[i][1]) }
    IN IF hits = {} THEN <<>>
       ELSE <<feature_keywords[CHOOSE i \in hits : \A h \in hits : i <= h][2]>>

RECURSIVE match_loop(_, _, _, _)
\* for keyword, feature_name in feature_keywords.items(): a keyword that
\* occurs in part and is longer than the best so far replaces it.
\* matched_feature is <<>> for None.
match_loop(part, n, best_score, matched_feature) ==
    IF n > Len(feature_keywords) THEN matched_feature
    ELSE LET keyword == feature_keywords[n][1]
             score == Len(keyword)
         IN IF Contains(part, keyword) /\ score > best_score
            THEN match_loop(part, n + 1, score, <<feature_keywords[n][2]>>)
            ELSE match_loop(part, n + 1, best_score, matched_feature)

\* any(w in part for w in words)
AnyIn(part, words) == \E i \in DOMAIN words : Contains(part, words[i])

\* value in thousandths: direction * 0.5, or * 0.8 with a strong word, or
\* * 0.25 with a mild one
edit_value(part, direction) ==
    IF AnyIn(part, StrongWords) THEN direction * 800
    ELSE IF AnyIn(part, MildWords) THEN direction * 250
    ELSE direction * 500

\* the edits of one part of the split text: none for an empty part or a part
\* without a feature keyword, one otherwise
part_edits(raw_part) ==
    LET part == Strip(raw_part)
        found == find_direction(part)
        matched_feature == match_loop(part, 1, 0, <<>>)
    IN IF part = <<>> \/ matched_feature = <<>> THEN <<>>
       ELSE <<[feature |-> matched_feature[1],
               value |-> edit_value(part, found[1]),
               direction |-> found[2],
               raw_text |-> Strip(part)]>>

RECURSIVE edits_of(_, _)
\* for part in parts: ..., from the n-th part on
edits_of(parts, n) ==
    IF n > Len(parts) THEN <<>>
    ELSE part_edits(parts[n]) \o edits_of(parts, n + 1)

\* parse_natural_description(description)
parse_natural_description(description) ==
    LET text == remove_fillers(Strip(Lower(description)), 1)
        parts == re_split(text)
    IN edits_of(parts, 1)

----------------------------------------------------------------------------
(* The parser applied to a drawn description *)

\* one, two or three segments with separators between them
Descriptions ==
    Phrases
    \cup { a \o s \o b : a \in Phrases, s \in Separators, b \in Phrases }
    \cup { <<"w", "i", "d", "e", "r", " ", "n", "o", "s", "e">> \o s
           \o <<"s", "t", "r", "o", "n", "g", "e", "r", " ", "j", "a", "w", "l", "i", "n", "e">>
           \o t \o b : s \in Separators, t \in Separators, b \in Phrases }

NLCalls == [op : {"parse_natural_description"}, description : Descriptions]

InitNL == call \in NLCalls /\ Idle

ParseNaturalDescription ==
    /\ call.op = "parse_natural_description"
    /\ Return(parse_natural_description(call.description))
    /\ UNCHANGED <<featureMap, armature, sent, pose, linkvars, bridgevars>>

NextNL == ParseNaturalDescription

SpecNL == InitNL /\ [][NextNL]_vars

----------------------------------------------------------------------------
(* Claims about the description parser and the static tables, checked under
   SpecNL *)

Parsed == done /\ call.op = "parse_natural_description"

\* the feature resolves to at least one operation, whatever the rig family
Resolves(feature) ==
    \A rig_type \in RigTypes :
        Len(get_operations_for_feature(FACIAL_FEATURE_MAP, feature, rig_type)) >= 1

\* C12: referential integrity of the static tables: every feature name used
\* by a preset, by the keyword lexicon and by the mapper's feature-to-ratio
\* table is a key of the feature catalog, and every ratio key used by the
\* mapper has a reference entry with std > 0; therefore every edit emitted by
\* parse_natural_description and every key of a preset or of a blend of two
\* presets resolves to at least one operation (the keys of a blend are keys of
\* one of its two presets).
C12_ReferentialIntegrity ==
    /\ \A p \in DOMAIN FACE_PRESETS : Keys(FACE_PRESETS[p][2]) \subseteq CatalogNames
    /\ \A n \in DOMAIN feature_keywords : feature_keywords[n][2] \in CatalogNames
    /\ \A m \in DOMAIN PROPORTION_TO_FEATURE :
          /\ PROPORTION_TO_FEATURE[m][1] \in CatalogNames
          /\ PROPORTION_TO_FEATURE[m][2] \in DOMAIN REFERENCE_PROPORTIONS
          /\ REFERENCE_PROPORTIONS[PROPORTION_TO_FEATURE[m][2]][2] > 0
    /\ \A key \in UNION { Keys(FACE_PRESETS[p][2]) : p \in DOMAIN FACE_PRESETS } :
          Resolves(key)
    /\ Parsed => \A i \in DOMAIN ret : Resolves(ret[i].feature)

\* C12 witness: a description whose three edits all resolve to operations
C12_Witness ==
    /\ Parsed
    /\ Len(ret) = 3
    /\ ret[3].feature = "lip_fullness_upper"
    /\ \A i \in DOMAIN ret : Resolves(ret[i].feature)

\* positions of the commas and semicolons of a text
CommaPositions(text) == { i \in DOMAIN text : text[i] \in {",", ";"} }

\* the k-th smallest member of a set of numbers
KthOf(S, k) == CHOOSE p \in S : Cardinality({ q \in S : q <= p }) = k

\* the comma- or semicolon-separated segments of a text, in order
Segments(text) ==
    LET S == CommaPositions(text)
        n == Cardinality(S)
    IN [k \in 1..(n + 1) |->
           SubSeq(text,
                  IF k = 1 THEN 1 ELSE KthOf(S, k - 1) + 1,
                  IF k = n + 1 THEN Len(text) ELSE KthOf(S, k) - 1)]

\* the text holds the word "and" (not merely the letters inside a word)
HasAndWord(text) ==
    \E i \in 1..(Len(text) - 2) :
        /\ <<text[i], text[i + 1], text[i + 2]>> = <<"a", "n", "d">>
        /\ (i = 1 \/ text[i - 1] \notin WordChars)
        /\ (i + 3 > Len(text) \/ text[i + 3] \notin WordChars)

HasDirection(segment) ==
    \E n \in DOMAIN DIRECTION_MAP : Contains(segment, DIRECTION_MAP[n][1])

\* the lexicon entries whose phrase occurs in the segment
KeywordsIn(segment) ==
    { n \in DOMAIN feature_keywords : Contains(segment, feature_keywords[n][1]) }

RECURSIVE IsSubsequence(_, _)
\* the characters of a occur in b in the same order
IsSubsequence(a, b) ==
    IF a = <<>> THEN TRUE
    ELSE IF b = <<>> THEN FALSE
    ELSE IF Head(a) = Head(b) THEN IsSubsequence(Tail(a), Tail(b))
    ELSE IsSubsequence(a, Tail(b))

WiderStrongerBigger ==
    <<"w", "i", "d", "e", "r", " ", "n", "o", "s", "e", ",", " ">>
    \o <<"s", "t", "r", "o", "n", "g", "e", "r", " ", "j", "a", "w", "l", "i", "n", "e", ",", " ">>
    \o <<"b", "i", "g", "g", "e", "r", " ", "e", "y", "e", "s">>

\* C13: for a text made of comma- or semicolon-separated segments (no word
\* "and"), parse_natural_description emits at most one edit per segment, in
\* segment order; when every segment contains a direction word and a feature
\* keyword it emits exactly one edit per segment; "wider nose, stronger
\* jawline, bigger eyes" gives exactly 3 edits for nose_width, jaw_width,
\* eye_size, all with positive value.
C13_OneEditPerSegment ==
    (Parsed /\ ~ HasAndWord(Lower(call.description))) =>
        LET segs == Segments(Lower(call.description))
        IN /\ Len(ret) <= Len(segs)
           /\ \E f \in [DOMAIN ret -> DOMAIN segs] :
                 /\ \A i \in DOMAIN ret, j \in DOMAIN ret : i < j => f[i] < f[j]
                 /\ \A i \in DOMAIN ret : IsSubsequence(ret[i].raw_text, segs[f[i]])
           /\ (\A k \in DOMAIN segs : HasDirection(segs[k]) /\ KeywordsIn(segs[k]) # {}) =>
                 /\ Len(ret) = Len(segs)
                 /\ \A i \in DOMAIN ret :
                       /\ IsSubsequence(ret[i].raw_text, segs[i])
                       /\ \E n \in KeywordsIn(segs[i]) :
                             feature_keywords[n][2] = ret[i].feature
           /\ call.description = WiderStrongerBigger =>
                 /\ [i \in DOMAIN ret |-> ret[i].feature]
                      = <<"nose_width", "jaw_width", "eye_size">>
                 /\ \A i \in DOMAIN ret : ret[i].value > 0

\* C13 witness: the three-segment example has been parsed into three edits
C13_Witness ==
    /\ Parsed
    /\ call.description = WiderStrongerBigger
    /\ Len(ret) = 3
    /\ ret[2].feature = "jaw_width"

\* the lexicon entries among K with the longest phrase
Longest(K) ==
    { n \in K : \A m \in K : Len(feature_keywords[m][1]) <= Len(feature_keywords[n][1]) }

\* C14: within a segment, the feature chosen by parse_natural_description is
\* the target of the longest keyword phrase that occurs in the segment, among
\* all lexicon phrases occurring in it (of the first such phrase in lexicon
\* order when several are equally long); a segment containing "nose bridge"
\* selects nose_bridge_height, not nose_width.
C14_LongestKeywordWins ==
    Parsed =>
        \A i \in DOMAIN ret :
            LET K == KeywordsIn(ret[i].raw_text)
            IN /\ K # {}
               /\ \E n \in Longest(K) :
                     /\ feature_keywords[n][2] = ret[i].feature
                     /\ \A m \in Longest(K) : n <= m
               /\ (/\ Contains(ret[i].raw_text,
                               <<"n", "o", "s", "e", " ", "b", "r", "i", "d", "g", "e">>)
                   /\ \A m \in K : Len(feature_keywords[m][1]) <= 11)
                     => ret[i].feature = "nose_bridge_height"

\* C14 witness: "nose bridge higher" (which also contains the shorter phrase
\* "nose") has been parsed into an edit of nose_bridge_height
C14_Witness ==
    /\ Parsed
    /\ Len(ret) >= 1
    /\ Contains(ret[1].raw_text, <<"n", "o", "s", "e", " ", "b", "r", "i", "d", "g", "e">>)
    /\ Cardinality(KeywordsIn(ret[1].raw_text)) >= 2
    /\ ret[1].feature = "nose_bridge_height"

\* C15: parse_natural_description silently drops every segment that matches
\* no direction word or no feature keyword: no edit is emitted for such a
\* segment, so every emitted edit has a non-empty direction word and a
\* non-zero value, and a text with no matches yields the empty list.
C15_DropsUnmatchedSegments ==
    Parsed =>
        /\ \A i \in DOMAIN ret :
              /\ HasDirection(ret[i].raw_text)
              /\ KeywordsIn(ret[i].raw_text) # {}
              /\ ret[i].direction # <<>>
              /\ ret[i].value # 0
        /\ (/\ ~ HasDirection(Lower(call.description))
            /\ KeywordsIn(Lower(call.description)) = {}) => ret = <<>>

\* the segments of the text that hold a feature keyword, in order
KeywordSegments(text) == SelectSeq(Segments(text), LAMBDA seg : KeywordsIn(seg) # {})

\* the sign of a direction word of the lexicon
SignOf(word) ==
    LET n == CHOOSE n \in DOMAIN DIRECTION_MAP : DIRECTION_MAP[n][1] = word
    IN DIRECTION_MAP[n][2]

\* the magnitude the claim gives a segment, in thousandths
ClaimedMagnitude(segment) ==
    IF AnyIn(segment, MildWords) THEN 250
    ELSE IF AnyIn(segment, StrongWords) THEN 800
    ELSE 500

\* C16: the magnitude of an emitted edit is 0.25 when its segment of the input
\* text contains a mild intensity phrase ("slightly", "a bit", "a little",
\* "subtly"), 0.8 when it contains a strong word, and 0.5 otherwise, wherever
\* the phrase stands in the text; the value is the direction sign times that
\* magnitude.  (Stated for texts without the word "and", for edits that have
\* a direction word, and for segments that do not hold both a mild and a
\* strong word.)
C16_MagnitudeFromIntensity ==
    (/\ Parsed
     /\ ~ HasAndWord(Lower(call.description))
     /\ Len(KeywordSegments(Lower(call.description))) = Len(ret)) =>
        \A i \in DOMAIN ret :
            LET segment == KeywordSegments(Lower(call.description))[i]
            IN (/\ ret[i].direction # <<>>
                /\ ~ (AnyIn(segment, MildWords) /\ AnyIn(segment, StrongWords))) =>
                  /\ Abs(ret[i].value) = ClaimedMagnitude(segment)
                  /\ ret[i].value = SignOf(ret[i].direction) * ClaimedMagnitude(segment)

\* a segment with a direction word and a feature keyword
Complete(segment) == HasDirection(Lower(segment)) /\ KeywordsIn(Lower(segment)) # {}

\* C17: parse_natural_description splits the text on the literal word "and" as
\* well as on commas and semicolons: a text "A and B", where A and B each
\* contain a direction word and a feature keyword, yields two edits, one for
\* A's feature and one for B's feature, each with its own direction.
C17_SplitsOnAnd ==
    Parsed =>
        \A a \in Phrases, b \in Phrases :
            (/\ call.description = a \o <<" ", "a", "n", "d", " ">> \o b
             /\ Complete(a)
             /\ Complete(b)) =>
                /\ Len(ret) = 2
                /\ \E n \in KeywordsIn(Lower(a)) : feature_keywords[n][2] = ret[1].feature
                /\ \E n \in KeywordsIn(Lower(b)) : feature_keywords[n][2] = ret[2].feature
                /\ ret[1].direction # <<>> /\ Contains(Lower(a), ret[1].direction)
                /\ ret[2].direction # <<>> /\ Contains(Lower(b), ret[2].direction)

----------------------------------------------------------------------------
(* face_reconstruction/proportion_analyzer.py *)

\* LM: landmark name |-> index into the landmark list (counted from 0)
LM ==
  [ forehead_top           |-> 10,
    chin_bottom            |-> 152,
    nose_bridge_top        |-> 6,
    nose_tip               |-> 4,
    nostril_left           |-> 129,
    nostril_right          |-> 358,
    nose_bridge_left       |-> 31,
    nose_bridge_right      |-> 261,
    left_eye_outer         |-> 33,
    left_eye_inner         |-> 133,
    right_eye_inner        |-> 362,
    right_eye_outer        |-> 263,
    left_eye_upper         |-> 159,
    left_eye_lower         |-> 145,
    right_eye_upper        |-> 386,
    right_eye_lower        |-> 374,
    left_brow_inner        |-> 107,
    right_brow_inner       |-> 336,
    left_brow_mid          |-> 105,
    right_brow_mid         |-> 334,
    left_brow_outer        |-> 70,
    right_brow_outer       |-> 300,
    lip_top_center         |-> 13,
    lip_bottom_center      |-> 14,
    lip_left_corner        |-> 61,
    lip_right_corner       |-> 291,
    upper_lip_vermillion   |-> 0,
    jaw_left               |-> 234,
    jaw_right              |-> 454,
    jaw_angle_left         |-> 172,
    jaw_angle_right        |-> 397,
    chin_center            |-> 199,
    chin_left              |-> 202,
    chin_right             |-> 422,
    cheek_left             |-> 123,
    cheek_right            |-> 352,
    cheek_upper_left       |-> 116,
    cheek_upper_right      |-> 345,
    glabella               |-> 9,
    nose_root              |-> 168 ]

\* one coordinate unit is 1/UnitsPerOne of the normalised image size
UnitsPerOne == 2000

\* the list length below which analyze_proportions gives up
MinLandmarks == 468

RECURSIVE SqrtSearch(_, _, _)
\* the largest r in lo..hi with r*r <= n
SqrtSearch(n, lo, hi) ==
    IF lo = hi THEN lo
    ELSE LET mid == (lo + hi + 1) \div 2
         IN IF mid * mid <= n THEN SqrtSearch(n, mid, hi) ELSE SqrtSearch(n, lo, mid - 1)

\* math.sqrt on the squares the drawn faces produce (all perfect squares)
Sqrt(n) == SqrtSearch(n, 0, 32768)

\* _dist2d: Euclidean distance using x, y only
dist2d(p1, p2) == Sqrt((p1[1] - p2[1]) * (p1[1] - p2[1]) + (p1[2] - p2[2]) * (p1[2] - p2[2]))

\* _midpoint (the drawn coordinates are even)
midpoint(p1, p2) ==
    <<(p1[1] + p2[1]) \div 2, (p1[2] + p2[2]) \div 2, (p1[3] + p2[3]) \div 2>>

\* _compute_ipd: distance of the eye centres, from landmarks 33/133 and 263/362
compute_ipd(landmarks) ==
    dist2d(midpoint(landmarks[33 + 1], landmarks[133 + 1]),
           midpoint(landmarks[263 + 1], landmarks[362 + 1]))

\* _point_line_distance_2d, as a fraction of coordinate units
point_line_distance_2d(point, line_start, line_end) ==
    LET x0 == point[1]
        y0 == point[2]
        x1 == line_start[1]
        y1 == line_start[2]
        x2 == line_end[1]
        y2 == line_end[2]
        num == Abs((y2 - y1) * x0 - (x2 - x1) * y0 + x2 * y1 - y2 * x1)
        den == Sqrt((y2 - y1) * (y2 - y1) + (x2 - x1) * (x2 - x1))
    IN IF den = 0 THEN RatZero ELSE Frac(num, den)

\* _compute_jaw_angle: ((left_dev + right_dev) / 2) / ipd
compute_jaw_angle(landmarks, ipd) ==
    LET chin == landmarks[LM.chin_bottom + 1]
        left_dev == point_line_distance_2d(landmarks[LM.jaw_angle_left + 1],
                                           landmarks[LM.jaw_left + 1], chin)
        right_dev == point_line_distance_2d(landmarks[LM.jaw_angle_right + 1],
                                            landmarks[LM.jaw_right + 1], chin)
        sum == RatAdd(left_dev, right_dev)
    IN Frac(sum[1], sum[2] * 2 * ipd)

\* _compute_brow_arch: ((left_arch + right_arch) / 2) / ipd with
\* arch = (inner.y + outer.y) / 2 - mid.y
compute_brow_arch(landmarks, ipd) ==
    LET left_arch2 == landmarks[LM.left_brow_inner + 1][2]
                      + landmarks[LM.left_brow_outer + 1][2]
                      - 2 * landmarks[LM.left_brow_mid + 1][2]
        right_arch2 == landmarks[LM.right_brow_inner + 1][2]
                       + landmarks[LM.right_brow_outer + 1][2]
                       - 2 * landmarks[LM.right_brow_mid + 1][2]
    IN Frac(left_arch2 + right_arch2, 4 * ipd)

\* a length test that lets a list of 467 landmarks through
insufficient_off_by_one(landmarks) ==
    landmarks = <<>> \/ Len(landmarks[1]) = 0 \/ Len(landmarks[1]) < MinLandmarks - 1

\* `not landmarks or len(landmarks) < 468`; landmarks is <<>> for None and
\* <<list>> for a list
insufficient(landmarks) ==
    landmarks = <<>> \/ Len(landmarks[1]) = 0 \/ Len(landmarks[1]) < MinLandmarks

\* the body of analyze_proportions once the list and the IPD are accepted:
\* the ratios in insertion order, each an exact fraction.  A difference of
\* raw coordinates is a number of units, hence over UnitsPerOne.
compute_props(landmarks, ipd) ==
    LET lm(name) == landmarks[LM[name] + 1]
        X(name) == lm(name)[1]
        Y(name) == lm(name)[2]
        Z(name) == lm(name)[3]
        eye_mid_z2 == Z("left_eye_inner") + Z("right_eye_inner")
        left_eye_h == dist2d(lm("left_eye_upper"), lm("left_eye_lower"))
        right_eye_h == dist2d(lm("right_eye_upper"), lm("right_eye_lower"))
        left_tilt == Y("left_eye_outer") - Y("left_eye_inner")
        right_tilt == Y("right_eye_inner") - Y("right_eye_outer")
        left_brow_h == dist2d(lm("left_brow_inner"), lm("left_eye_inner"))
        right_brow_h == dist2d(lm("right_brow_inner"), lm("right_eye_inner"))
        face_height == dist2d(lm("forehead_top"), lm("chin_bottom"))
    IN << <<"nose_width_ratio",
            Frac(dist2d(lm("nostril_left"), lm("nostril_right")), ipd)>>,
          <<"nose_length_ratio",
            Frac(dist2d(lm("nose_bridge_top"), lm("nose_tip")), ipd)>>,
          <<"nose_tip_height_ratio",
            Frac(Z("nose_tip") - Z("nose_bridge_top"), UnitsPerOne)>>,
          <<"nose_bridge_width_ratio",
            Frac(dist2d(lm("nose_bridge_left"), lm("nose_bridge_right")), ipd)>>,
          <<"nose_bridge_height_ratio",
            Frac(eye_mid_z2 - 2 * Z("nose_bridge_top"), 2 * UnitsPerOne)>>,
          <<"jaw_width_ratio",
            Frac(dist2d(lm("jaw_left"), lm("jaw_right")), ipd)>>,
          <<"jaw_height_ratio",
            Frac(2 * Y("chin_bottom") - Y("jaw_left") - Y("jaw_right"), 2 * ipd)>>,
          <<"jaw_angle_ratio", compute_jaw_angle(landmarks, ipd)>>,
          <<"chin_prominence_ratio",
            Frac(Z("chin_center") - Z("nose_tip"), UnitsPerOne)>>,
          <<"chin_width_ratio",
            Frac(dist2d(lm("chin_left"), lm("chin_right")), ipd)>>,
          <<"chin_height_ratio",
            Frac(dist2d(lm("chin_center"), lm("chin_bottom")), ipd)>>,
          <<"eye_height_ratio", Frac(left_eye_h + right_eye_h, 2 * ipd)>>,
          <<"eye_spacing_ratio",
            Frac(dist2d(lm("left_eye_inner"), lm("right_eye_inner")), ipd)>>,
          <<"eye_tilt_ratio", Frac(left_tilt + right_tilt, 2 * UnitsPerOne)>>,
          <<"eye_depth_ratio",
            Frac(eye_mid_z2 - 2 * Z("nose_root"), 2 * UnitsPerOne)>>,
          <<"brow_height_ratio", Frac(left_brow_h + right_brow_h, 2 * ipd)>>,
          <<"brow_arch_ratio", compute_brow_arch(landmarks, ipd)>>,
          <<"brow_spacing_ratio",
            Frac(dist2d(lm("left_brow_inner"), lm("right_brow_inner")), ipd)>>,
          <<"lip_upper_ratio",
            Frac(dist2d(lm("upper_lip_vermillion"), lm("lip_top_center")), ipd)>>,
          <<"lip_lower_ratio",
            Frac(dist2d(lm("upper_lip_vermillion"), lm("lip_bottom_center")), ipd)>>,
          <<"lip_width_ratio",
            Frac(dist2d(lm("lip_left_corner"), lm("lip_right_corner")), ipd)>>,
          <<"lip_height_ratio",
            IF face_height * 1000 > UnitsPerOne
            THEN Frac(Y("lip_top_center") + Y("lip_bottom_center") - 2 * Y("nose_tip"),
                      2 * ipd)
            ELSE Frac(32, 100)>>,
          <<"cheekbone_height_ratio",
            Frac(Y("cheek_left") + Y("cheek_right")
                 - Y("left_eye_inner") - Y("right_eye_inner"), 2 * ipd)>>,
          <<"cheekbone_prominence_ratio",
            Frac(dist2d(lm("cheek_left"), lm("cheek_right")), ipd)>>,
          <<"cheek_fullness_ratio",
            Frac(Z("cheek_upper_left") + Z("cheek_upper_right") - eye_mid_z2,
                 2 * UnitsPerOne)>>,
          <<"forehead_height_ratio",
            Frac(Abs(2 * Y("forehead_top") - Y("left_brow_inner") - Y("right_brow_inner")),
                 2 * ipd)>>,
          <<"forehead_width_ratio",
            Frac(dist2d(lm("left_brow_outer"), lm("right_brow_outer")), ipd)>>,
          <<"forehead_slope_ratio",
            Frac(Z("forehead_top") - Z("glabella"), UnitsPerOne)>>,
          <<"face_width_ratio",
            Frac(dist2d(lm("jaw_left"), lm("jaw_right")), ipd)>>,
          <<"face_length_ratio",
            Frac(dist2d(lm("forehead_top"), lm("chin_bottom")), ipd)>>,
          <<"ear_size_ratio", RatZero>>,
          <<"ear_angle_ratio", RatZero>> >>

\* analyze_proportions(landmarks): <<>> for the empty dict
analyze_proportions(landmarks) ==
    IF insufficient(landmarks) THEN <<>>
    ELSE LET ipd == compute_ipd(landmarks[1])
         IN IF ipd * 1000 < UnitsPerOne THEN <<>>
            ELSE compute_props(landmarks[1], ipd)

----------------------------------------------------------------------------
(* The analyzer applied to a drawn landmark list *)

\* a frontal face, <<x, y, z>> per named landmark in coordinate units (y grows
\* downwards); every measured pair is axis-parallel or spans a 3-4-5 triangle
BaseFace ==
  [ forehead_top |-> <<200, 20, -12>>,  chin_bottom |-> <<200, 340, -8>>,
    nose_bridge_top |-> <<200, 120, -20>>, nose_tip |-> <<200, 200, -40>>,
    nostril_left |-> <<170, 210, -24>>, nostril_right |-> <<230, 210, -24>>,
    nose_bridge_left |-> <<190, 130, -16>>, nose_bridge_right |-> <<210, 130, -16>>,
    left_eye_outer |-> <<110, 120, 4>>, left_eye_inner |-> <<170, 120, 0>>,
    right_eye_inner |-> <<230, 120, 4>>, right_eye_outer |-> <<290, 120, 4>>,
    left_eye_upper |-> <<140, 110, 0>>, left_eye_lower |-> <<140, 130, 0>>,
    right_eye_upper |-> <<260, 110, 0>>, right_eye_lower |-> <<260, 130, 0>>,
    left_brow_inner |-> <<170, 90, -10>>, right_brow_inner |-> <<230, 90, -10>>,
    left_brow_mid |-> <<140, 90, -10>>, right_brow_mid |-> <<260, 90, -10>>,
    left_brow_outer |-> <<110, 90, -6>>, right_brow_outer |-> <<290, 90, -6>>,
    lip_top_center |-> <<200, 250, -26>>, lip_bottom_center |-> <<200, 260, -26>>,
    lip_left_corner |-> <<170, 254, -14>>, lip_right_corner |-> <<230, 254, -14>>,
    upper_lip_vermillion |-> <<200, 240, -28>>,
    jaw_left |-> <<80, 180, 30>>, jaw_right |-> <<320, 180, 30>>,
    jaw_angle_left |-> <<110, 280, 20>>, jaw_angle_right |-> <<290, 280, 20>>,
    chin_center |-> <<200, 310, -10>>,
    chin_left |-> <<180, 320, -6>>, chin_right |-> <<220, 320, -6>>,
    cheek_left |-> <<100, 170, 10>>, cheek_right |-> <<300, 170, 10>>,
    cheek_upper_left |-> <<120, 150, 6>>, cheek_upper_right |-> <<280, 150, 10>>,
    glabella |-> <<200, 100, -16>>, nose_root |-> <<200, 120, -14>> ]

EyeShapes == {"level", "rolled", "raised", "near", "threshold"}

\* the face with its eye corners moved: "rolled" lifts the left outer corner
\* and drops the right one, "raised" lifts both outer corners, "near" puts the
\* eye centres one unit apart (0.0005) and "threshold" two units (0.001)
WithEyes(face, eyes) ==
    CASE eyes = "level" -> face
      [] eyes = "rolled" ->
           [face EXCEPT !.left_eye_outer = <<110, 98, 4>>,
                        !.right_eye_outer = <<290, 142, 4>>]
      [] eyes = "raised" ->
           [face EXCEPT !.left_eye_outer = <<110, 116, 4>>,
                        !.right_eye_outer = <<290, 116, 4>>]
      [] eyes = "near" ->
           [face EXCEPT !.left_eye_outer = <<198, 120, 4>>,
                        !.left_eye_inner = <<200, 120, 0>>,
                        !.right_eye_inner = <<200, 120, 4>>,
                        !.right_eye_outer = <<200, 120, 4>>,
                        !.left_brow_inner = <<200, 90, -10>>,
                        !.right_brow_inner = <<200, 90, -10>>]
      [] eyes = "threshold" ->
           [face EXCEPT !.left_eye_outer = <<196, 120, 4>>,
                        !.left_eye_inner = <<200, 120, 0>>,
                        !.right_eye_inner = <<200, 120, 4>>,
                        !.right_eye_outer = <<200, 120, 4>>,
                        !.left_brow_inner = <<200, 90, -10>>,
                        !.right_brow_inner = <<200, 90, -10>>]

BrowShapes == {"flat", "arched", "sloped", "sloped_off_centre"}

\* "arched" lifts both mid-brow landmarks above the inner-outer line; "sloped"
\* drops both outer brow landmarks and keeps the mid-brow landmarks on the
\* inner-outer line, half way along it or, "sloped_off_centre", a third of
\* the way from the inner landmark
WithBrows(face, brows) ==
    CASE brows = "flat" -> face
      [] brows = "arched" ->
           [face EXCEPT !.left_brow_mid = <<140, 80, -10>>,
                        !.right_brow_mid = <<260, 80, -10>>]
      [] brows = "sloped" ->
           [face EXCEPT !.left_brow_outer = <<110, 120, -6>>,
                        !.right_brow_outer = <<290, 120, -6>>,
                        !.left_brow_mid = <<140, 105, -10>>,
                        !.right_brow_mid = <<260, 105, -10>>]
      [] brows = "sloped_off_centre" ->
           [face EXCEPT !.left_brow_outer = <<110, 120, -6>>,
                        !.right_brow_outer = <<290, 120, -6>>,
                        !.left_brow_mid = <<150, 100, -10>>,
                        !.right_brow_mid = <<250, 100, -10>>]

\* x and y of every landmark multiplied by k, z unchanged
ScaleXY(list, k) == [i \in DOMAIN list |-> <<list[i][1] * k, list[i][2] * k, list[i][3]>>]

\* the landmark list of length n for a face: the named landmarks at their
\* indices, <<0, 0, 0>> elsewhere
LandmarkList(face, n) ==
    [i \in 1..n |->
        IF \E name \in DOMAIN LM : LM[name] = i - 1
        THEN face[CHOOSE name \in DOMAIN LM : LM[name] = i - 1]
        ELSE <<0, 0, 0>>]

ListLengths == {MinLandmarks - 1, MinLandmarks, 478}

\* None, the empty list, and the drawn faces at every scale and length
LandmarkArgs ==
    {<<>>, <<<<>>>>}
    \cup { <<ScaleXY(LandmarkList(WithBrows(WithEyes(BaseFace, eyes), brows), n), k)>> :
              eyes \in EyeShapes, brows \in BrowShapes, n \in ListLengths,
              k \in 1..MaxScale }

AnalyzerCalls == [op : {"analyze_proportions"}, landmarks : LandmarkArgs]

InitAnalyzer == call \in AnalyzerCalls /\ Idle

AnalyzeProportions ==
    /\ call.op = "analyze_proportions"
    /\ Return(analyze_proportions(call.landmarks))
    /\ UNCHANGED <<featureMap, armature, sent, pose, linkvars, bridgevars>>

NextAnalyzer == AnalyzeProportions

SpecAnalyzer == InitAnalyzer /\ [][NextAnalyzer]_vars

----------------------------------------------------------------------------
(* Claims about the analyzer, checked under SpecAnalyzer *)

Analyzed == done /\ call.op = "analyze_proportions"

\* four times the squared distance of the eye centres, in squared units
EyeCentreGap4(list) ==
    LET dx == list[34][1] + list[134][1] - list[264][1] - list[363][1]
        dy == list[34][2] + list[134][2] - list[264][2] - list[363][2]
    IN dx * dx + dy * dy

\* the IPD of the list is below 0.001, that is below UnitsPerOne / 1000 units
IpdTooSmall(list) ==
    EyeCentreGap4(list) < 4 * (UnitsPerOne \div 1000) * (UnitsPerOne \div 1000)

\* C18: analyze_proportions is all-or-nothing: it returns the empty map when
\* the landmark list is missing or has fewer than 468 points, or when the
\* computed IPD is below 0.001, and otherwise returns a map whose key set is
\* exactly the fixed set of 32 ratio names consumed by the feature mapper; it
\* never returns a partially populated map.
C18_AllOrNothing ==
    Analyzed =>
        LET rejected == \/ call.landmarks = <<>>
                        \/ Len(call.landmarks[1]) < 468
                        \/ IpdTooSmall(call.landmarks[1])
        IN /\ rejected => ret = <<>>
           /\ ~ rejected =>
                 /\ Len(ret) = 32
                 /\ Keys(ret) = RatioKeys
                 /\ Cardinality(RatioKeys) = 32

\* C18 witness: a list of exactly 468 landmarks whose eye centres are exactly
\* 0.001 apart has been analysed into the full map
C18_Witness ==
    /\ Analyzed
    /\ call.landmarks # <<>>
    /\ Len(call.landmarks[1]) = 468
    /\ EyeCentreGap4(call.landmarks[1]) = 16
    /\ Len(ret) = 32

\* the ratios read from z coordinates alone, and the two constant ear ratios
DepthRatioKeys ==
    {"nose_tip_height_ratio", "nose_bridge_height_ratio", "chin_prominence_ratio",
     "eye_depth_ratio", "cheek_fullness_ratio", "forehead_slope_ratio",
     "ear_size_ratio", "ear_angle_ratio"}

\* the ratios computed from x/y coordinates
PlaneRatioKeys == RatioKeys \ DepthRatioKeys

\* the plane ratios of the analysed list and of the same list scaled by k
\* agree on the given keys (when both lists are accepted)
SameUnderScaling(keys) ==
    (Analyzed /\ ret # <<>>) =>
        \A k \in 1..MaxScale :
            LET scaled == analyze_proportions(<<ScaleXY(call.landmarks[1], k)>>)
            IN scaled # <<>> =>
                  \A key \in keys : RatEq(Lookup(ret, key), Lookup(scaled, key))

\* C19: scale invariance: multiplying the x and y coordinates of every
\* landmark by the same factor k > 0 (z unchanged, IPD still >= 0.001) leaves
\* every ratio that analyze_proportions computes from x/y coordinates
\* unchanged.
C19_ScaleInvariant == SameUnderScaling(PlaneRatioKeys)


-----------------------------------------------------------------------------
(* The Blender add-on executing bone commands on the scene *)

\* the scenes the add-on runs in: no armature, or an armature of two bones
ExecutorScenes == {<<>>, <<<<"jaw", "nose">>>>}

\* the targets a client names: the bones of the armature and two absent ones
TargetNames == {"jaw", "nose", "ghost", "phantom"}

\* the operations a batch is made of
BatchPool ==
    {[bone_name |-> "jaw", transform |-> "location", axis |-> "X", amount |-> 250000],
     [bone_name |-> "jaw", transform |-> "scale", axis |-> "y", amount |-> -500000],
     [bone_name |-> "nose", transform |-> "rotation", axis |-> "Z", amount |-> 45000000],
     [bone_name |-> "ghost", transform |-> "location", axis |-> "X", amount |-> 250000],
     [bone_name |-> "phantom", transform |-> "scale", axis |-> "X", amount |-> 100000]}

\* the batches a client sends: no operation, one, or two
Batches ==
    {<<>>} \cup { <<a>> : a \in BatchPool } \cup { <<a, b>> : a, b \in BatchPool }

InitExecutor ==
    /\ call = [type |-> "none"]
    /\ ret = <<>>
    /\ done = FALSE
    /\ featureMap = <<>>
    /\ armature \in ExecutorScenes
    /\ sent = <<>>
    /\ pose = RestPose(armature)
    /\ Offline

\* the add-on receives batch_move_bones and runs handle_batch_move_bones
HandleBatchMoveBones ==
    /\ Len(sent) < MaxCommands
    /\ \E operations \in Batches :
          LET command == [type |-> "batch_move_bones",
                          params |-> [operations |-> operations]]
          IN /\ call' = command
             /\ sent' = Append(sent, command)
             /\ ret' = handle_batch_move_bones(armature, operations)
             /\ pose' = pose_after_batch(pose, operations)
    /\ done' = TRUE
    /\ UNCHANGED <<featureMap, armature, linkvars, bridgevars>>

\* the add-on receives get_bone_transform and runs handle_get_bone_transform
HandleGetBoneTransform ==
    /\ \E bone_name \in TargetNames :
          /\ call' = [type |-> "get_bone_transform",
                      params |-> [bone_name |-> bone_name]]
          /\ ret' = handle_get_bone_transform(armature, pose, bone_name)
    /\ done' = TRUE
    /\ UNCHANGED <<featureMap, armature, sent, pose, linkvars, bridgevars>>

NextExecutor ==
    \/ HandleBatchMoveBones
    \/ HandleGetBoneTransform

SpecExecutor == InitExecutor /\ [][NextExecutor]_vars

-----------------------------------------------------------------------------
(* Claims about the batch handler *)

RECURSIVE Flatten(_)
\* the operations of all the batches of a log, in the order received
Flatten(log) ==
    IF log = <<>> THEN <<>>
    ELSE Head(log).params.operations \o Flatten(Tail(log))

\* the operations received so far that name a bone of the armature, a
\* transform and an axis
ReceivedFor(bone_name, transform, axis) ==
    SelectSeq(Flatten(sent),
              LAMBDA op : /\ op.bone_name = bone_name
                          /\ op.transform = transform
                          /\ op.axis \in axis)

RECURSIVE SumOfAmounts(_)
SumOfAmounts(ops) ==
    IF ops = <<>> THEN 0 ELSE Head(ops).amount + SumOfAmounts(Tail(ops))

RECURSIVE ProductOfScales(_)
ProductOfScales(ops) ==
    IF ops = <<>> THEN RatOne
    ELSE RatMul(Frac(Million + Head(ops).amount, Million), ProductOfScales(Tail(ops)))

\* the spellings of the three axes, in the order of a transform's components
AxisNames == << {"X", "x"}, {"Y", "y"}, {"Z", "z"} >>

\* the location, the rotation in degrees and the scale that the operations
\* received so far give a bone of the armature
ExpectedLocation(bone_name) ==
    [i \in 1..3 |-> SumOfAmounts(ReceivedFor(bone_name, "location", AxisNames[i]))]

ExpectedDegrees(bone_name) ==
    [i \in 1..3 |-> Frac(SumOfAmounts(ReceivedFor(bone_name, "rotation", AxisNames[i])), Million)]

ExpectedScale(bone_name) ==
    [i \in 1..3 |-> ProductOfScales(ReceivedFor(bone_name, "scale", AxisNames[i]))]

\* the targets of a batch that the armature does not have, in batch order
Unresolved(operations) ==
    LET missing == SelectSeq(operations, LAMBDA op : op.bone_name \notin DOMAIN pose)
    IN [i \in DOMAIN missing |-> missing[i].bone_name]

\* the add-on has just answered a batch_move_bones in a scene with an armature
BatchAnswered == armature # <<>> /\ done /\ call.type = "batch_move_bones"

\* the add-on has just answered a get_bone_transform for a bone of the armature
TransformRead ==
    /\ armature # <<>>
    /\ done
    /\ call.type = "get_bone_transform"
    /\ call.params.bone_name \in DOMAIN pose

\* C20: in a scene with an armature, batch_move_bones never fails for an
\* unresolved target: the reply is a success, skipped is the unresolved
\* targets in batch order, applied + |skipped| is the length of the batch,
\* and a read of a bone afterwards shows every operation received for that
\* bone: the amounts added to the location, the factors 1 + amount multiplied
\* into the scale, the degrees added to the rotation
C20_BatchSkipsUnresolved ==
    /\ BatchAnswered =>
          LET operations == call.params.operations
          IN /\ ret.status = "success"
             /\ ret.skipped = Unresolved(operations)
             /\ ret.applied + Len(ret.skipped) = Len(operations)
    /\ TransformRead =>
          LET bone_name == call.params.bone_name
          IN /\ ret.status = "success"
             /\ ret.location = ExpectedLocation(bone_name)
             /\ \A i \in 1..3 :
                   /\ RatEq(ret.rotation_euler[i], ExpectedDegrees(bone_name)[i])
                   /\ RatEq(ret.scale[i], ExpectedScale(bone_name)[i])

\* a bone is read after two batches that each moved it and each named an
\* absent bone
C20_Witness ==
    /\ TransformRead
    /\ call.params.bone_name = "jaw"
    /\ Len(sent) = 2
    /\ \A k \in 1..2 : Len(Unresolved(sent[k].params.operations)) = 1
    /\ ret.location = <<500000, 0, 0>>

-----------------------------------------------------------------------------
(* mcp_server/tools/preset_tools.py *)

\* the flow is run at most MaxRuns times on the same inputs and rig
MaxRuns == 2

\* all_ops of blend_face_presets: for every blended feature in the order of
\* blended.items(), one item per catalog operation; value is clamped to
\* [-1.0, 1.0] and amount = value * multiplier, in units of
\* 1/(Million * FactorSteps)
RECURSIVE blend_ops(_, _, _)
blend_ops(catalog, blended, rig_type) ==
    IF blended = <<>> THEN <<>>
    ELSE LET feature_name == Head(blended)[1]
             value == Max(-1000 * FactorSteps, Min(1000 * FactorSteps, Head(blended)[2]))
         IN batch_ops(get_operations_for_feature(catalog, feature_name, rig_type), value)
            \o blend_ops(catalog, Tail(blended), rig_type)

\* blend_face_presets(preset_a, preset_b, blend_factor) with blend_factor =
\* k / FactorSteps, the key set iterated in the order all_keys
blend_face_presets(catalog, scene, preset_a, preset_b, k, all_keys, links) ==
    LET blended == blend_presets(preset_a, preset_b, k, all_keys)
        list_bones == [command |-> "list_bones", params |-> <<>>]
        bones_result == send_command("list_bones", <<>>, scene, links[1])
    IN IF blended = <<>>
       THEN Outcome(<<>>, [kind |-> "error", error |-> "presets not found"])
       ELSE IF bones_result.status # "success"
       THEN Outcome(<<list_bones>>, [kind |-> "error", error |-> bones_result.error])
       ELSE LET rig_type == detect_rig_type(bones_result.bones)
                batch == [command |-> "batch_move_bones",
                          params |-> [operations |-> blend_ops(catalog, blended[1], rig_type)]]
                result == send_command("batch_move_bones", batch.params, scene, links[2])
            IN Outcome(<<list_bones, batch>>,
                       IF result.status = "success"
                       THEN [kind |-> "applied", applied |-> result.applied]
                       ELSE [kind |-> "error", error |-> result.error])

\* the amounts of a blended batch as the pose keeps them, in millionths
in_millionths(operations) ==
    [i \in DOMAIN operations |->
        [operations[i] EXCEPT !.amount = operations[i].amount \div FactorSteps]]

-----------------------------------------------------------------------------
(* blend_face_presets run repeatedly on one drawn input and rig *)

ToolPresetNames == {"angular_face", "arched_brows", "nonexistent"}

ToolScenes == {<<>>, <<SeqOf(RigBones("metahuman") \cup metahuman_markers)>>}

PresetToolCalls ==
    [op : {"blend_face_presets"}, preset_a : ToolPresetNames,
     preset_b : ToolPresetNames, blend_factor : 0..FactorSteps]

InitPresetTools ==
    /\ call \in PresetToolCalls
    /\ ret = <<>>
    /\ done = FALSE
    /\ featureMap = FACIAL_FEATURE_MAP
    /\ armature \in ToolScenes
    /\ sent = <<>>
    /\ pose = RestPose(armature)
    /\ Offline

\* one run of the tool; every run is a process of its own, so the key set is
\* iterated in an order of its own
BlendFacePresets ==
    /\ call.op = "blend_face_presets"
    /\ Len(sent) + 2 <= 2 * MaxRuns
    /\ \E links \in Links, all_keys \in all_keys_orders(call.preset_a, call.preset_b) :
          LET outcome == blend_face_presets(featureMap, armature, call.preset_a,
                                            call.preset_b, call.blend_factor,
                                            all_keys, links)
          IN /\ ret' = outcome.ret
             /\ sent' = sent \o outcome.sent
             /\ pose' = IF Len(outcome.sent) = 2 /\ links[2] = "up"
                        THEN pose_after_batch(pose,
                                 in_millionths(outcome.sent[2].params.operations))
                        ELSE pose
    /\ done' = TRUE
    /\ UNCHANGED <<call, featureMap, armature, linkvars, bridgevars>>

NextPresetTools == BlendFacePresets

SpecPresetTools == InitPresetTools /\ [][NextPresetTools]_vars

-----------------------------------------------------------------------------
(* Claims about blend_face_presets, checked under SpecPresetTools *)

\* the positions of the batches in the log of commands
BatchesSent == { i \in DOMAIN sent : sent[i].command = "batch_move_bones" }

\* C21 (as claimed): runs of blend_face_presets with the same presets, the
\* same factor and the same rig send the identical ordered operation list:
\* any two batches in the log of a behaviour are equal
C21_SameBatchEveryRun ==
    \A i, j \in BatchesSent :
        sent[i].params.operations = sent[j].params.operations

-----------------------------------------------------------------------------
(* A session of edit_facial_feature calls on one scene *)

\* the features edited in a session, as the client spells them
SessionFeatures == { NameChars[k] : k \in {"nose_width", "jaw_width"} }

\* thousandths: -1.0, 0.0, 0.5
SessionValues == {-1000, 0, 500}

InitFaceSession ==
    /\ call = [op |-> "none"]
    /\ ret = <<>>
    /\ done = FALSE
    /\ featureMap = FACIAL_FEATURE_MAP
    /\ armature \in ToolScenes
    /\ sent = <<>>
    /\ pose = RestPose(armature)
    /\ Offline

\* the client calls edit_facial_feature once more
EditFacialFeatureInSession ==
    /\ Len(sent) + 2 <= 2 * MaxRuns
    /\ \E feature \in SessionFeatures, value \in SessionValues, links \in Links :
          LET outcome == edit_facial_feature(featureMap, armature, feature, value, links)
          IN /\ call' = [op |-> "edit_facial_feature", feature |-> feature, value |-> value]
             /\ ret' = outcome.ret
             /\ sent' = sent \o outcome.sent
             /\ pose' = IF Len(outcome.sent) = 2 /\ links[2] = "up"
                        THEN pose_after_batch(pose, outcome.sent[2].params.operations)
                        ELSE pose
    /\ done' = TRUE
    /\ UNCHANGED <<featureMap, armature, linkvars, bridgevars>>

NextFaceSession == EditFacialFeatureInSession

SpecFaceSession == InitFaceSession /\ [][NextFaceSession]_vars

-----------------------------------------------------------------------------
(* Claims about a session of edits, checked under SpecFaceSession *)

\* the last call was an edit and its batch was applied to the scene
EditApplied == Edited /\ ret.kind = "applied"

\* the component of a bone's transform that an operation drives
Driven(bones, op) ==
    IF op.transform = "location" THEN <<bones[op.bone_name].location[axis_index(op.axis)], 1>>
    ELSE IF op.transform = "scale" THEN bones[op.bone_name].scale[axis_index(op.axis)]
    ELSE bones[op.bone_name].rotation_euler[axis_index(op.axis)]

\* C22 (as claimed): after edit_facial_feature(f, v) was applied, whatever
\* edits came before, every bone of f stands on the axes f drives where v *
\* multiplier puts it from rest; for v = 0.0 that is the rest transform
C22_ValueIsAbsolute ==
    EditApplied =>
        LET operations == sent[Len(sent)].params.operations
            from_rest == pose_after_batch(RestPose(armature), operations)
        IN \A i \in DOMAIN operations :
              operations[i].bone_name \in DOMAIN pose =>
                  RatEq(Driven(pose, operations[i]), Driven(from_rest, operations[i]))

-----------------------------------------------------------------------------
(* blender_addon/tcp_server.py and mcp_server/blender_connection.py: the
   newline-delimited JSON protocol.  A line on the wire is [kind, value]:
   kind says what json.loads makes of the text ("object", "array", "null",
   "invalid" for text that is no JSON, "blank" for white space only) and
   value is the parsed value. *)

\* send_command calls made in a run
MaxRequests == 2
\* connections that the server accepts in a run
MaxConnections == 2
\* BlenderConnection._max_retries
MaxRetries == 3

\* JSON null, and a request id that is absent
NoId == 0

\* json.dumps of a dict, as one line
json_dumps(obj) == [kind |-> "object", value |-> obj]

\* a socket pair just connected and accepted
NewConnection ==
    [toServer |-> <<>>, toClient |-> <<>>,
     clientOpen |-> TRUE, serverOpen |-> TRUE, reset |-> FALSE]

\* the commands registered with the router
RegisteredCommands == {"ping", "list_bones"}

\* CommandRouter.dispatch as the TCP thread sees it: an error for an unknown
\* command, otherwise what get_result returned (the handler's result, or the
\* time-out error)
dispatch(command, result) ==
    IF command \notin RegisteredCommands
    THEN [status |-> "error", error |-> "Unknown command"]
    ELSE IF result = "timeout"
    THEN [status |-> "error", error |-> "Command timed out"]
    ELSE [status |-> "success", error |-> ""]

\* what get_result may give dispatch
DispatchResults == {"done", "timeout"}

\* MCPTCPServer._process_message: the response, or raised when request.get
\* fails on a value that is no dict
process_message(message, result) ==
    IF message.kind = "invalid"
    THEN [raised |-> FALSE,
          response |-> [id |-> NoId, status |-> "error", error |-> "Invalid JSON"]]
    ELSE IF message.kind # "object"
    THEN [raised |-> TRUE, response |-> <<>>]
    ELSE LET request == message.value
             request_id == IF "id" \in DOMAIN request THEN request.id ELSE NoId
             command == IF "command" \in DOMAIN request THEN request.command ELSE ""
         IN IF command = ""
            THEN [raised |-> FALSE,
                  response |-> [id |-> request_id, status |-> "error",
                                error |-> "Missing 'command' field"]]
            ELSE [raised |-> FALSE,
                  response |-> [id |-> request_id] @@ dispatch(command, result)]

\* _handle_client takes the next complete message of connection c: a blank
\* one is skipped, any other is processed and answered; an exception that is
\* neither a time-out nor a reset ends the handler, which closes the socket
HandleClient(c) ==
    /\ wire[c].serverOpen
    /\ wire[c].toServer # <<>>
    /\ LET message == Head(wire[c].toServer)
       IN IF message.kind = "blank"
          THEN /\ wire' = [wire EXCEPT ![c].toServer = Tail(@)]
               /\ UNCHANGED server
          ELSE /\ server' = [server EXCEPT !.received = Append(@, <<c, message>>)]
               /\ \E result \in DispatchResults :
                     LET outcome == process_message(message, result)
                     IN wire' = IF outcome.raised
                                THEN [wire EXCEPT ![c].serverOpen = FALSE,
                                                  ![c].toServer = <<>>]
                                ELSE [wire EXCEPT ![c].toServer = Tail(@),
                                                  ![c].toClient =
                                                      Append(@, json_dumps(outcome.response))]
    /\ UNCHANGED <<call, ret, done, featureMap, armature, sent, pose, client, bridgevars>>

\* _handle_client finds the connection closed by the client or reset: recv
\* returns no data or raises ConnectionResetError, the handler closes the socket
HandleClientClosed(c) ==
    /\ wire[c].serverOpen
    /\ wire[c].toServer = <<>>
    /\ wire[c].reset \/ ~ wire[c].clientOpen
    /\ wire' = [wire EXCEPT ![c].serverOpen = FALSE]
    /\ UNCHANGED <<call, ret, done, featureMap, armature, sent, pose, client, server, bridgevars>>

\* the network resets connection c: the data under way is lost
ConnectionReset(c) ==
    /\ wire[c].clientOpen
    /\ wire[c].serverOpen
    /\ ~ wire[c].reset
    /\ wire' = [wire EXCEPT ![c].reset = TRUE, ![c].toServer = <<>>, ![c].toClient = <<>>]
    /\ UNCHANGED <<call, ret, done, featureMap, armature, sent, pose, client, server, bridgevars>>

-----------------------------------------------------------------------------
(* BlenderConnection.send_command, one step per blocking call *)

LinkCommands == {"ping", "list_bones", "bogus"}

\* send_command(command): builds the request with a fresh id and enters the
\* retry loop
SendCommand ==
    /\ client.pc = "idle"
    /\ Len(sent) < MaxRequests
    /\ \E command \in LinkCommands :
          LET request == [id |-> Len(sent) + 1, command |-> command, params |-> <<>>]
          IN /\ call' = [op |-> "send_command", request |-> request]
             /\ sent' = Append(sent, request)
    /\ ret' = <<>>
    /\ done' = FALSE
    /\ client' = [client EXCEPT !.pc = "connecting", !.attempt = 0]
    /\ UNCHANGED <<featureMap, armature, pose, wire, server, bridgevars>>

\* the branch for ConnectionRefusedError, ConnectionResetError and
\* BrokenPipeError: disconnect, then the next attempt or, after the last
\* one, the error dict
connection_failed(c) ==
    /\ wire' = IF c # 0 THEN [wire EXCEPT ![c].clientOpen = FALSE] ELSE wire
    /\ IF client.attempt < MaxRetries - 1
       THEN /\ client' = [socket |-> 0, pc |-> "connecting", attempt |-> client.attempt + 1]
            /\ UNCHANGED <<ret, done>>
       ELSE /\ client' = [socket |-> 0, pc |-> "idle", attempt |-> client.attempt]
            /\ ret' = [status |-> "error", error |-> "Cannot connect to Blender"]
            /\ done' = TRUE

\* `if not self.is_connected(): self.connect()`: a socket whose peek raises is
\* dropped; without a socket connect() is accepted or refused
Connect ==
    /\ client.pc = "connecting"
    /\ IF client.socket # 0 /\ ~ wire[client.socket].reset
       THEN /\ client' = [client EXCEPT !.pc = "sending"]
            /\ UNCHANGED <<ret, done, wire>>
       ELSE \/ /\ Len(wire) < MaxConnections
               /\ wire' = Append(wire, NewConnection)
               /\ client' = [client EXCEPT !.socket = Len(wire) + 1, !.pc = "sending"]
               /\ UNCHANGED <<ret, done>>
            \/ connection_failed(0)
    /\ UNCHANGED <<call, featureMap, armature, sent, pose, server, bridgevars>>

\* sendall(message): the request goes on the wire; on a reset connection it
\* raises, on one that the server closed it raises or the data is lost
Send ==
    /\ client.pc = "sending"
    /\ LET c == client.socket
           written == /\ client' = [client EXCEPT !.pc = "receiving"]
                      /\ UNCHANGED <<ret, done>>
       IN IF wire[c].reset THEN connection_failed(c)
          ELSE IF ~ wire[c].serverOpen
          THEN \/ connection_failed(c)
               \/ written /\ UNCHANGED wire
          ELSE /\ written
               /\ wire' = [wire EXCEPT ![c].toServer = Append(@, json_dumps(call.request))]
    /\ UNCHANGED <<call, featureMap, armature, sent, pose, server, bridgevars>>

\* _receive_response and json.loads: recv takes what has arrived, the text up
\* to the first newline is the response and the rest is dropped; a connection
\* closed or reset raises ConnectionResetError
Receive ==
    /\ client.pc = "receiving"
    /\ LET c == client.socket
       IN IF wire[c].toClient # <<>>
          THEN /\ ret' = Head(wire[c].toClient).value
               /\ done' = TRUE
               /\ wire' = [wire EXCEPT ![c].toClient = <<>>]
               /\ client' = [client EXCEPT !.pc = "idle"]
          ELSE /\ wire[c].reset \/ ~ wire[c].serverOpen
               /\ connection_failed(c)
    /\ UNCHANGED <<call, featureMap, armature, sent, pose, server, bridgevars>>

\* socket.timeout in recv: the error dict is returned and the socket is kept
Timeout ==
    /\ client.pc = "receiving"
    /\ LET c == client.socket
       IN /\ wire[c].toClient = <<>>
          /\ ~ wire[c].reset
          /\ wire[c].serverOpen
    /\ ret' = [status |-> "error", error |-> "Command timed out waiting for Blender response"]
    /\ done' = TRUE
    /\ client' = [client EXCEPT !.pc = "idle"]
    /\ UNCHANGED <<call, featureMap, armature, sent, pose, wire, server, bridgevars>>

InitLink == call = [op |-> "none"] /\ Idle

NextLink ==
    \/ SendCommand
    \/ Connect
    \/ Send
    \/ Receive
    \/ Timeout
    \/ \E c \in DOMAIN wire : ConnectionReset(c)
    \/ \E c \in DOMAIN wire : HandleClient(c)
    \/ \E c \in DOMAIN wire : HandleClientClosed(c)

SpecLink == InitLink /\ [][NextLink]_vars

-----------------------------------------------------------------------------
(* Claims about send_command, checked under SpecLink *)

\* the positions in the log of received messages that hold the request id
CopiesReceived(id) ==
    { i \in DOMAIN server.received : server.received[i][2].value.id = id }

\* C23 (as claimed): the server receives exactly one copy of the request of
\* every send_command call, never a duplicate, also when the connection is
\* reset or closed after the request was sent and send_command retries
C23_NoDuplicateRequest ==
    \A i \in DOMAIN sent : Cardinality(CopiesReceived(sent[i].id)) <= 1

-----------------------------------------------------------------------------
(* Claims about the brow and eye measurements, checked under SpecAnalyzer *)

\* analyze_proportions has returned the ratios of the list it was given
Measured32 == Analyzed /\ Len(ret) = 32

\* the landmark of a name in the list that was analysed
Landmark(name) == call.landmarks[1][LM[name] + 1]

\* point p lies on the straight line through a and b (in x and y)
OnLine(p, a, b) ==
    (b[1] - a[1]) * (p[2] - a[2]) = (b[2] - a[2]) * (p[1] - a[1])

\* both mid-brow landmarks lie on the line joining their inner and outer
\* brow landmarks
BrowsOnLine ==
    /\ OnLine(Landmark("left_brow_mid"), Landmark("left_brow_inner"),
              Landmark("left_brow_outer"))
    /\ OnLine(Landmark("right_brow_mid"), Landmark("right_brow_inner"),
              Landmark("right_brow_outer"))

\* C24 (as claimed): whenever each mid-brow landmark lies exactly on the line
\* joining its inner and outer brow landmarks, brow_arch_ratio is 0, also when
\* the line is sloped and the mid-brow x is not half way between the two
C24_BrowOnLineIsZero ==
    (Measured32 /\ BrowsOnLine) => RatEq(Lookup(ret, "brow_arch_ratio"), RatZero)

\* how much higher in the image (smaller y) the outer corner of an eye is
\* than its inner corner
LeftLift == Landmark("left_eye_inner")[2] - Landmark("left_eye_outer")[2]
RightLift == Landmark("right_eye_inner")[2] - Landmark("right_eye_outer")[2]

\* C25 (as claimed): eye_tilt_ratio is positive when on both eyes the outer
\* corner is higher than the inner corner by the same amount d > 0, and it is
\* 0 when the eye corners are level
C25_UpwardTiltPositive ==
    Measured32 =>
        /\ (LeftLift > 0 /\ RightLift = LeftLift) =>
              RatLt(RatZero, Lookup(ret, "eye_tilt_ratio"))
        /\ (LeftLift = 0 /\ RightLift = 0) =>
              RatEq(Lookup(ret, "eye_tilt_ratio"), RatZero)

-----------------------------------------------------------------------------
(* The TCP server fed by clients that write any lines *)

\* messages that the server takes in a run
MaxLines == 3

\* the lines a client writes: a request, a request without id, an object
\* without command, text that is no JSON, JSON that is no object, white space
RawLines ==
    {[kind |-> "object", value |-> [id |-> 7, command |-> "ping", params |-> <<>>]],
     [kind |-> "object", value |-> [command |-> "bogus"]],
     [kind |-> "object", value |-> [id |-> 8]],
     [kind |-> "invalid", value |-> <<>>],
     [kind |-> "array", value |-> <<1, 2>>],
     [kind |-> "null", value |-> <<>>],
     [kind |-> "blank", value |-> <<>>]}

RECURSIVE Pending(_)
\* the lines written and not yet taken by a handler, over connections 1..c
Pending(c) == IF c = 0 THEN 0 ELSE Len(wire[c].toServer) + Pending(c - 1)

\* a client connects and the server starts a handler thread for it
RawConnect ==
    /\ Len(wire) < MaxConnections
    /\ wire' = Append(wire, NewConnection)
    /\ UNCHANGED <<call, ret, done, featureMap, armature, sent, pose, client, server, bridgevars>>

\* a client writes one line
RawSend(c) ==
    /\ wire[c].clientOpen
    /\ wire[c].serverOpen
    /\ Len(server.received) + Pending(Len(wire)) < MaxLines
    /\ \E line \in RawLines : wire' = [wire EXCEPT ![c].toServer = Append(@, line)]
    /\ UNCHANGED <<call, ret, done, featureMap, armature, sent, pose, client, server, bridgevars>>

\* a client closes its socket
RawClose(c) ==
    /\ wire[c].clientOpen
    /\ wire' = [wire EXCEPT ![c].clientOpen = FALSE]
    /\ UNCHANGED <<call, ret, done, featureMap, armature, sent, pose, client, server, bridgevars>>

InitServer == call = [op |-> "none"] /\ Idle

NextServer ==
    \/ RawConnect
    \/ \E c \in DOMAIN wire : RawSend(c)
    \/ \E c \in DOMAIN wire : RawClose(c)
    \/ \E c \in DOMAIN wire : HandleClient(c)
    \/ \E c \in DOMAIN wire : HandleClientClosed(c)

SpecServer == InitServer /\ [][NextServer]_vars

-----------------------------------------------------------------------------
(* Claims about the TCP server, checked under SpecServer *)

\* the non-blank messages the handler of connection c has taken, in order
TakenOn(c) ==
    LET taken == SelectSeq(server.received, LAMBDA entry : entry[1] = c)
    IN [i \in DOMAIN taken |-> taken[i][2]]

\* the id a response must carry: the id of a request object, null otherwise
IdOf(message) ==
    IF message.kind = "object" /\ "id" \in DOMAIN message.value
    THEN message.value.id ELSE NoId

\* C26 (as claimed): on every connection the server has sent exactly one
\* response for every non-empty message it has taken, in arrival order, with
\* status success or error and the id of the request (null when there is
\* none), and it keeps the connection open after an invalid message, one that
\* is valid JSON but no object included
C26_OneResponsePerMessage ==
    \A c \in DOMAIN wire :
        LET taken == TakenOn(c)
            responses == wire[c].toClient
        IN /\ Len(responses) = Len(taken)
           /\ \A i \in DOMAIN responses :
                 /\ i <= Len(taken)
                 /\ responses[i].value.id = IdOf(taken[i])
                 /\ responses[i].value.status \in {"success", "error"}
           /\ wire[c].clientOpen => wire[c].serverOpen

-----------------------------------------------------------------------------
(* blender_addon/utils/thread_safe.py and command_router.py: TCP threads in
   CommandRouter.dispatch on one side of the CommandQueue, the timer callback
   _process_queue of the main thread on the other *)

\* dispatch calls made in a run
MaxDispatched == 3

\* submit_command: a fresh command id (a uuid4, here the next number) and
\* the command put at the end of the queue
submit_command(q, handler_func, params) ==
    [q EXCEPT !.submitted = @ + 1,
              !.command_queue = Append(@, [command_id |-> q.submitted + 1,
                                           handler_func |-> handler_func,
                                           params |-> params])]

\* a queue that hands out the newest command first
get_nowait_newest(command_queue) ==
    [item |-> command_queue[Len(command_queue)],
     rest |-> SubSeq(command_queue, 1, Len(command_queue) - 1)]

\* queue.Queue.get_nowait on a queue that is not empty: the oldest command
get_nowait(command_queue) ==
    [item |-> Head(command_queue), rest |-> Tail(command_queue)]

\* handler_func(params) for the two registered handlers; `of` notes the
\* command the call was made for
run_handler(item, scene) ==
    [of |-> item.command_id,
     value |-> IF item.handler_func = "ping"
               THEN [status |-> "success", result |-> "pong"]
               ELSE handle_list_bones(scene)]

\* self._results[command_id] = result
store_result(results, command_id, result) ==
    [id \in DOMAIN results \cup {command_id} |->
        IF id = command_id THEN result ELSE results[id]]

\* self._results.pop(command_id): the store without the entry
pop_result(results, command_id) ==
    [id \in DOMAIN results \ {command_id} |-> results[id]]

\* what get_result returns when the time is up
TimedOut == [status |-> "error", error |-> "Command timed out"]

RECURSIVE Dispatched(_)
\* the dispatch calls made so far by threads 1..t, returned or waiting
Dispatched(t) ==
    IF t = 0 THEN 0
    ELSE Len(threads[t].returned)
         + (IF threads[t].pc = "waiting" THEN 1 ELSE 0) + Dispatched(t - 1)

\* the ids of the commands whose handler has been called
ExecutedIds == { mainThread.executed[i].command_id : i \in DOMAIN mainThread.executed }

BridgeCommands == RegisteredCommands \cup {"bogus"}

\* a TCP thread calls dispatch(command_name, params): an unknown command is
\* answered at once, a known one is submitted to the queue
Dispatch(t) ==
    /\ threads[t].pc = "idle"
    /\ Dispatched(MaxThreads) < MaxDispatched
    /\ \E command_name \in BridgeCommands :
          IF command_name \notin RegisteredCommands
          THEN /\ threads' = [threads EXCEPT ![t].returned =
                                 Append(@, [command_id |-> 0,
                                            result |-> dispatch(command_name, "done"),
                                            ran |-> FALSE])]
               /\ UNCHANGED commandQueue
          ELSE /\ commandQueue' = submit_command(commandQueue, command_name, <<>>)
               /\ threads' = [threads EXCEPT ![t].pc = "waiting",
                                             ![t].command_id = commandQueue.submitted + 1]
    /\ UNCHANGED <<call, ret, done, featureMap, armature, sent, pose, linkvars, mainThread>>

\* get_result finds the result of its command and pops it
GetResult(t) ==
    /\ threads[t].pc = "waiting"
    /\ threads[t].command_id \in DOMAIN commandQueue.results
    /\ threads' = [threads EXCEPT ![t].pc = "idle",
                                  ![t].returned =
                                      Append(@, [command_id |-> threads[t].command_id,
                                                 result |-> commandQueue.results[threads[t].command_id],
                                                 ran |-> TRUE])]
    /\ commandQueue' = [commandQueue EXCEPT !.results = pop_result(@, threads[t].command_id)]
    /\ UNCHANGED <<call, ret, done, featureMap, armature, sent, pose, linkvars, mainThread>>

\* get_result leaves its loop because the time is up; `ran` notes whether the
\* handler had been called by then
GetResultTimeout(t) ==
    /\ threads[t].pc = "waiting"
    /\ threads' = [threads EXCEPT ![t].pc = "idle",
                                  ![t].returned =
                                      Append(@, [command_id |-> threads[t].command_id,
                                                 result |-> TimedOut,
                                                 ran |-> threads[t].command_id \in ExecutedIds])]
    /\ UNCHANGED <<call, ret, done, featureMap, armature, sent, pose, linkvars, commandQueue, mainThread>>

\* _process_queue takes the next command and calls its handler
ProcessQueueGet ==
    /\ mainThread.pc = "idle"
    /\ commandQueue.command_queue # <<>>
    /\ LET got == get_nowait(commandQueue.command_queue)
       IN /\ commandQueue' = [commandQueue EXCEPT !.command_queue = got.rest]
          /\ mainThread' = [pc |-> "store",
                            current |-> <<run_handler(got.item, armature)>>,
                            executed |-> Append(mainThread.executed,
                                                [command_id |-> got.item.command_id,
                                                 by |-> "main"])]
    /\ UNCHANGED <<call, ret, done, featureMap, armature, sent, pose, linkvars, threads>>

\* _process_queue stores the result under the command id
ProcessQueueStore ==
    /\ mainThread.pc = "store"
    /\ commandQueue' = [commandQueue EXCEPT !.results =
                           store_result(@, mainThread.current[1].of, mainThread.current[1])]
    /\ mainThread' = [mainThread EXCEPT !.pc = "idle", !.current = <<>>]
    /\ UNCHANGED <<call, ret, done, featureMap, armature, sent, pose, linkvars, threads>>

InitBridge == call = [op |-> "none"] /\ Idle

NextBridge ==
    \/ \E t \in 1..MaxThreads : Dispatch(t)
    \/ \E t \in 1..MaxThreads : GetResult(t)
    \/ \E t \in 1..MaxThreads : GetResultTimeout(t)
    \/ ProcessQueueGet
    \/ ProcessQueueStore

SpecBridge == InitBridge /\ [][NextBridge]_vars

-----------------------------------------------------------------------------
(* Claims about the command queue, checked under SpecBridge *)

\* the results that get_result calls have returned: <<thread, position>>
ResultsReturned ==
    { <<t, i>> \in (1..MaxThreads) \X (1..MaxDispatched) :
         /\ i <= Len(threads[t].returned)
         /\ threads[t].returned[i].command_id # 0
         /\ threads[t].returned[i].result # TimedOut }

\* C27: every submitted command is in the queue or its handler has been
\* called exactly once, by _process_queue on the main thread, in the order of
\* submission (ids are given in that order); a result is stored under the id
\* of its own command, goes to at most one get_result call, and is no longer
\* in the store once returned
C27_QueueBridge ==
    /\ \A i \in DOMAIN mainThread.executed :
          /\ mainThread.executed[i].command_id = i
          /\ mainThread.executed[i].by = "main"
    /\ Len(mainThread.executed) + Len(commandQueue.command_queue) = commandQueue.submitted
    /\ \A id \in DOMAIN commandQueue.results : commandQueue.results[id].of = id
    /\ \A r \in ResultsReturned :
          LET entry == threads[r[1]].returned[r[2]]
          IN /\ entry.result.of = entry.command_id
             /\ entry.command_id \notin DOMAIN commandQueue.results
             /\ \A q \in ResultsReturned :
                   threads[q[1]].returned[q[2]].command_id = entry.command_id => q = r

\* two commands wait in the queue, then both are run and each thread gets
\* the result of its own command
C27_Witness ==
    /\ Len(mainThread.executed) = 2
    /\ Cardinality(ResultsReturned) = 2
    /\ \A t \in 1..2 : Len(threads[t].returned) = 1 /\ threads[t].returned[1].ran
    /\ threads[1].returned[1].command_id = 2

\* the dispatch calls that returned the time-out error: <<thread, position>>
TimeoutsReturned ==
    { <<t, i>> \in (1..MaxThreads) \X (1..MaxDispatched) :
         /\ i <= Len(threads[t].returned)
         /\ threads[t].returned[i].result = TimedOut }

\* C29 (as claimed): a command for which dispatch returned the time-out error
\* has no later effect: its handler is not called after the time-out and no
\* result for its id is in the result store
C29_TimedOutHasNoEffect ==
    \A r \in TimeoutsReturned :
        LET entry == threads[r[1]].returned[r[2]]
        IN /\ entry.command_id \in ExecutedIds => entry.ran
           /\ entry.command_id \notin DOMAIN commandQueue.results

-----------------------------------------------------------------------------
(* Claims about the responses of send_command, checked under SpecLink *)

\* send_command has returned a response that came from the server
ResponseReturned == done /\ call.op = "send_command" /\ "id" \in DOMAIN ret

\* C28 (as claimed): the response that send_command returns for a request is
\* the response the server produced for that request: it carries the id of
\* the request, also in the call that follows a timed-out call on the same
\* connection
C28_ResponseMatchesRequest ==
    ResponseReturned => ret.id = call.request.id

-----------------------------------------------------------------------------
(* Claims about the sign of an edit, checked under SpecNL *)

\* the word stands in the text as a whole word
OccursAsWord(text, word) ==
    \E i \in 1..(Len(text) - Len(word) + 1) :
        /\ SubSeq(text, i, i + Len(word) - 1) = word
        /\ (i = 1 \/ text[i - 1] \notin WordChars)
        /\ (i + Len(word) - 1 = Len(text) \/ text[i + Len(word)] \notin WordChars)

\* the direction words of the lexicon written in a segment
DirectionWordsIn(segment) ==
    { DIRECTION_MAP[n][1] : n \in { m \in DOMAIN DIRECTION_MAP :
                                       OccursAsWord(segment, DIRECTION_MAP[m][1]) } }

\* C30 (as claimed): the sign of an edit follows the direction word written
\* in its segment: when the only direction word of the segment is a negative
\* word of the lexicon the value is negative, when it is a positive word the
\* value is positive.  (Stated for texts without the word "and", whose
\* segments with a feature keyword each gave an edit.)
C30_SignFollowsDirectionWord ==
    (/\ Parsed
     /\ ~ HasAndWord(Lower(call.description))
     /\ Len(KeywordSegments(Lower(call.description))) = Len(ret)) =>
        \A i \in DOMAIN ret :
            LET words == DirectionWordsIn(KeywordSegments(Lower(call.description))[i])
            IN Cardinality(words) = 1 =>
                  ret[i].value * SignOf(CHOOSE word \in words : TRUE) > 0

====
